---- MODULE Spec2Model ----
(***************************************************************************)
(* Model of the analytics hook (src/expressjs-monorepo/hooks/analytics.sh, *)
(* final iteration, lines 938-2165): one process per hook event.  Every    *)
(* invocation constructs SimpleAnalytics with empty in-memory maps,        *)
(* initializes the ledgers, handles one event against the per-session      *)
(* state file and exits.                                                   *)
(*                                                                         *)
(* Conventions                                                             *)
(*  - an optional JS value (undefined or a value) is a sequence of length  *)
(*    0 or 1;                                                              *)
(*  - a JS object used as an insertion-ordered map (toolStartData) is a    *)
(*    sequence of [key, val] pairs in Object.keys() order;                 *)
(*  - a text is a sequence of one-character strings;                       *)
(*  - money is an integer number of 5e-10 USD (prices are multiples of     *)
(*    0.0005 USD per million tokens), so the arithmetic is exact;          *)
(*  - a ledger row is kept as the record of the values handed to           *)
(*    buildCSVRow, in the column names of CONFIG.CSV_HEADERS.              *)
(***************************************************************************)
EXTENDS Integers, Sequences, FiniteSets, TLC

\* ------------------------------------------------------------------ bounds
\* Number of invocations in one behaviour of Spec.
MaxEvents == 5
\* Number of prompts classified in one behaviour of SpecClassify.
MaxClassified == 2
\* The number of runs of the program observed in SpecMain.
MaxRuns == 1
\* The number of runs observed in SpecAppend.
MaxFaultyRuns == 1
\* The number of processes that run side by side in SpecConcurrent.
MaxProcs == 2
\* The number of operations on the ledger file in SpecMigrate.
MaxFileOps == 2
\* The number of usage tuples priced in SpecCost.
MaxPriced == 1
\* The number of prompts classified in one behaviour of SpecOrder.
MaxOrdered == 2
\* The length of the values escaped in SpecEscape.
MaxValueLen == 3
\* The number of invocations, some of which die, in SpecCrash.
MaxInvocations == 2
\* The number of rows appended while the ledger is initialized in SpecMigrateRace.
MaxAppended == 1
\* The number of invocations in SpecSessions.
MaxSessionEvents == 3
\* The number of runs observed in SpecState.
MaxStateRuns == 2
\* The number of invocations in SpecGitCache.
MaxCacheRuns == 2
\* The length of a value in SpecRoundTrip.
MaxFieldLen == 2

\* ------------------------------------------------------------- configuration
EXTENDED_CONTEXT_THRESHOLD == 200000
MAX_RETRIES == 3

SONNET == "eu.anthropic.claude-sonnet-4-5-20250929-v1:0"
HAIKU == "eu.anthropic.claude-3-haiku-20240307-v1:0"
DEFAULT_MODEL == SONNET

\* CONFIG.PRICING, in units of 0.0005 USD per million tokens.
PRICING ==
  [m \in {SONNET, HAIKU} |->
     IF m = SONNET
     THEN [standard |-> [input |-> 6600, output |-> 33000, cacheWrite |-> 8250, cacheRead |-> 660],
           extended |-> [input |-> 13200, output |-> 49500, cacheWrite |-> 16500, cacheRead |-> 1320]]
     ELSE [standard |-> [input |-> 500, output |-> 2500, cacheWrite |-> 625, cacheRead |-> 50],
           extended |-> [input |-> 1000, output |-> 3750, cacheWrite |-> 1250, cacheRead |-> 100]]]

\* The keys of CONFIG.CSV_HEADERS / this.files.
Ledgers == {"sessions", "turns", "commits", "tools", "costs", "prompts", "gitOps", "compactions"}

\* ------------------------------------------------------------ small helpers
Some(v) == <<v>>
None == <<>>
IsSome(o) == Len(o) > 0
Get(o) == o[1]

\* x || d for a number x (0 is falsy).
OrNum(x, d) == IF x = 0 THEN d ELSE x

Reverse(s) == [i \in 1..Len(s) |-> s[Len(s) + 1 - i]]

\* Array.prototype.find over a sequence, given the positions that satisfy
\* the predicate: the element at the first of them, if any.
FindFirst(s, hits) ==
  IF hits = {} THEN None ELSE Some(s[CHOOSE i \in hits : \A j \in hits : i <= j])

\* A JS object as an insertion-ordered map: obj[key] = val keeps the position
\* of an existing key and appends a new one; delete removes the pair.
ObjKeys(obj) == [i \in 1..Len(obj) |-> obj[i].key]
ObjHas(obj, key) == \E i \in 1..Len(obj) : obj[i].key = key
ObjGet(obj, key) == obj[CHOOSE i \in 1..Len(obj) : obj[i].key = key].val
ObjSet(obj, key, val) ==
  IF ObjHas(obj, key)
  THEN [i \in 1..Len(obj) |-> IF obj[i].key = key THEN [key |-> key, val |-> val] ELSE obj[i]]
  ELSE Append(obj, [key |-> key, val |-> val])
ObjDelete(obj, key) == SelectSeq(obj, LAMBDA e : e.key # key)

\* ---------------------------------------------------------- prompt classifier
\* The characters \\w of a JS regular expression.
WordChars ==
  {"a","b","c","d","e","f","g","h","i","j","k","l","m","n","o","p","q","r","s","t","u","v","w","x","y","z",
   "A","B","C","D","E","F","G","H","I","J","K","L","M","N","O","P","Q","R","S","T","U","V","W","X","Y","Z",
   "0","1","2","3","4","5","6","7","8","9","_"}
UpperCase == <<"A","B","C","D","E","F","G","H","I","J","K","L","M","N","O","P","Q","R","S","T","U","V","W","X","Y","Z">>
LowerCase == <<"a","b","c","d","e","f","g","h","i","j","k","l","m","n","o","p","q","r","s","t","u","v","w","x","y","z">>
\* Mutant of Fold: the patterns without the i flag.
Fold_CaseSensitive(c) == c
\* Case folding of the i flag.
Fold(c) == IF \E i \in 1..26 : UpperCase[i] = c THEN LowerCase[CHOOSE i \in 1..26 : UpperCase[i] = c] ELSE c

\* \\b at position i of text: between text[i-1] and text[i], exactly one is a word character.
IsWordAt(text, i) == i >= 1 /\ i <= Len(text) /\ text[i] \in WordChars
WordBoundary(text, i) == IsWordAt(text, i - 1) # IsWordAt(text, i)
MatchesAt(text, alt, i) ==
  /\ i + Len(alt) - 1 <= Len(text)
  /\ \A k \in 1..Len(alt) : Fold(text[i + k - 1]) = alt[k]
\* /\\b(alt1|alt2|...)\\b/i.test(text)
RegexTest(alts, text) ==
  \E alt \in alts : \E i \in 1..Len(text) :
     /\ WordBoundary(text, i)
     /\ MatchesAt(text, alt, i)
     /\ WordBoundary(text, i + Len(alt))

\* PROMPT_PATTERNS: the alternatives of each pattern, each between \\b ... \\b, flag i.
PROMPT_PATTERNS ==
  [
   featureDev |->
     {<<"a","d","d">>,
      <<"c","r","e","a","t","e">>,
      <<"i","m","p","l","e","m","e","n","t">>,
      <<"b","u","i","l","d">>,
      <<"n","e","w"," ","f","e","a","t","u","r","e">>,
      <<"d","e","v","e","l","o","p">>,
      <<"i","n","i","t","i","a","l","i","s","e">>,
      <<"i","n","i","t","i","a","l","i","z","e">>},
   bugFix |->
     {<<"f","i","x">>,
      <<"b","u","g">>,
      <<"e","r","r","o","r">>,
      <<"i","s","s","u","e">>,
      <<"b","r","o","k","e","n">>,
      <<"n","o","t"," ","w","o","r","k","i","n","g">>,
      <<"d","o","e","s","n","'","t"," ","w","o","r","k">>,
      <<"d","o","e","s","n","t"," ","w","o","r","k">>},
   testing |->
     {<<"t","e","s","t">>,
      <<"t","e","s","t","i","n","g">>,
      <<"s","p","e","c">>,
      <<"u","n","i","t"," ","t","e","s","t">>,
      <<"i","n","t","e","g","r","a","t","i","o","n"," ","t","e","s","t">>,
      <<"e","2","e">>,
      <<"v","e","r","i","f","y">>,
      <<"v","a","l","i","d","a","t","e">>,
      <<"b","e","h","a","v","i","o","u","r">>,
      <<"b","e","h","a","v","i","o","r">>},
   refactoring |->
     {<<"r","e","f","a","c","t","o","r">>,
      <<"c","l","e","a","n","u","p">>,
      <<"c","l","e","a","n"," ","u","p">>,
      <<"r","e","o","r","g","a","n","i","z","e">>,
      <<"r","e","o","r","g","a","n","i","s","e">>,
      <<"r","e","s","t","r","u","c","t","u","r","e">>,
      <<"i","m","p","r","o","v","e">>,
      <<"o","p","t","i","m","i","z","e">>,
      <<"o","p","t","i","m","i","s","e">>},
   documentation |->
     {<<"d","o","c","u","m","e","n","t">>,
      <<"d","o","c","u","m","e","n","t","a","t","i","o","n">>,
      <<"c","o","m","m","e","n","t">>,
      <<"r","e","a","d","m","e">>,
      <<"d","o","c","s">>,
      <<"e","x","p","l","a","i","n">>,
      <<"d","e","s","c","r","i","b","e">>,
      <<"s","u","m","m","a","r","i","s","e">>,
      <<"s","u","m","m","a","r","i","z","e">>},
   codeUnderstanding |->
     {<<"w","h","a","t">>,
      <<"h","o","w">>,
      <<"w","h","y">>,
      <<"w","h","e","r","e">>,
      <<"w","h","e","n">>,
      <<"e","x","p","l","a","i","n">>,
      <<"u","n","d","e","r","s","t","a","n","d">>,
      <<"s","h","o","w"," ","m","e">>,
      <<"t","e","l","l"," ","m","e">>,
      <<"c","a","n"," ","y","o","u">>,
      <<"c","o","u","l","d"," ","y","o","u">>,
      <<"w","o","u","l","d"," ","y","o","u">>,
      <<"f","i","n","d">>,
      <<"a","n","a","l","y","s","e">>,
      <<"a","n","a","l","y","z","e">>},
   explanation |->
     {<<"h","o","w"," ","d","o","e","s">>,
      <<"h","o","w"," ","i","s">>,
      <<"e","x","p","l","a","i","n">>,
      <<"u","n","d","e","r","s","t","a","n","d">>},
   navigation |->
     {<<"f","i","n","d">>,
      <<"s","e","a","r","c","h">>,
      <<"w","h","e","r","e">>,
      <<"l","o","c","a","t","e">>},
   debugging |->
     {<<"d","e","b","u","g">>,
      <<"d","e","b","u","g","g","e","r">>,
      <<"b","r","e","a","k","p","o","i","n","t">>,
      <<"t","r","a","c","e">>,
      <<"i","n","s","p","e","c","t">>,
      <<"i","n","v","e","s","t","i","g","a","t","e">>,
      <<"t","r","o","u","b","l","e","s","h","o","o","t">>},
   codeReview |->
     {<<"r","e","v","i","e","w">>,
      <<"c","h","e","c","k">>,
      <<"v","e","r","i","f","y">>,
      <<"v","a","l","i","d","a","t","e">>,
      <<"l","o","o","k"," ","a","t">>,
      <<"e","x","a","m","i","n","e">>,
      <<"a","n","a","l","y","s","e">>,
      <<"a","n","a","l","y","z","e">>},
   configuration |->
     {<<"c","o","n","f","i","g">>,
      <<"c","o","n","f","i","g","u","r","e">>,
      <<"s","e","t","u","p">>,
      <<"s","e","t"," ","u","p">>,
      <<"i","n","s","t","a","l","l">>,
      <<"d","e","p","l","o","y">>,
      <<"i","n","i","t","i","a","l","i","s","e">>,
      <<"i","n","i","t","i","a","l","i","z","e">>},
   versionControl |->
     {<<"c","o","m","m","i","t">>,
      <<"p","u","s","h">>,
      <<"p","u","l","l">>,
      <<"m","e","r","g","e">>,
      <<"b","r","a","n","c","h">>,
      <<"g","i","t">>,
      <<"p","r">>,
      <<"p","u","l","l"," ","r","e","q","u","e","s","t">>,
      <<"r","e","b","a","s","e">>}
  ]

\* Mutant of categorizePrompt: the bug-fix group is tested before the
\* feature-development group.
categorizePrompt_BugFixFirst(promptText) ==
  LET T(p) == RegexTest(p, promptText)
      R(c, s) == [category |-> c, subcategory |-> s]
  IN IF T(PROMPT_PATTERNS.bugFix)
     THEN IF T(PROMPT_PATTERNS.testing)
          THEN R("bug_fix", "with_tests")
          ELSE R("bug_fix", "fix")
     ELSE IF T(PROMPT_PATTERNS.featureDev)
     THEN IF T(PROMPT_PATTERNS.testing)
          THEN R("feature_development", "with_tests")
          ELSE R("feature_development", "implementation")
     ELSE IF T(PROMPT_PATTERNS.testing) THEN R("testing", "writing_tests")
     ELSE R("general", "other")

\* categorizePrompt: the groups in source order, the first that matches decides.
categorizePrompt(promptText) ==
  LET T(p) == RegexTest(p, promptText)
      R(c, s) == [category |-> c, subcategory |-> s]
  IN IF T(PROMPT_PATTERNS.featureDev)
     THEN IF T(PROMPT_PATTERNS.testing)
          THEN R("feature_development", "with_tests")
          ELSE R("feature_development", "implementation")
     ELSE IF T(PROMPT_PATTERNS.bugFix)
     THEN IF T(PROMPT_PATTERNS.testing)
          THEN R("bug_fix", "with_tests")
          ELSE R("bug_fix", "fix")
     ELSE IF T(PROMPT_PATTERNS.testing) THEN R("testing", "writing_tests")
     ELSE IF T(PROMPT_PATTERNS.refactoring) THEN R("refactoring", "code_improvement")
     ELSE IF T(PROMPT_PATTERNS.documentation) THEN R("documentation", "writing_docs")
     ELSE IF T(PROMPT_PATTERNS.codeUnderstanding)
     THEN IF T(PROMPT_PATTERNS.explanation) THEN R("code_understanding", "explanation")
          ELSE IF T(PROMPT_PATTERNS.navigation) THEN R("code_understanding", "navigation")
          ELSE R("code_understanding", "question")
     ELSE IF T(PROMPT_PATTERNS.debugging) THEN R("debugging", "investigation")
     ELSE IF T(PROMPT_PATTERNS.codeReview) THEN R("code_review", "review")
     ELSE IF T(PROMPT_PATTERNS.configuration) THEN R("configuration", "setup")
     ELSE IF T(PROMPT_PATTERNS.versionControl) THEN R("version_control", "git_operations")
     ELSE R("general", "other")

\* String.prototype.trim.
WhiteSpace == {" ", "\t", "\n", "\r"}
Trim(text) ==
  LET I == {i \in 1..Len(text) : text[i] \notin WhiteSpace}
  IN IF I = {} THEN <<>>
     ELSE SubSeq(text, CHOOSE i \in I : \A j \in I : i <= j,
                       CHOOSE i \in I : \A j \in I : i >= j)

\* --------------------------------------------------------- ledger file text
\* A value handed to buildCSVRow is a text (String(value)) or null/undefined,
\* which is no text: its one element is not a character.
Null == <<"null">>

\* The characters escapeCSV neutralizes at the start of a value:
\* /^[=+\-@\t\r]/.
FormulaTriggers == {"=", "+", "-", "@", "\t", "\r"}

\* str.replace(/"/g, '""').
RECURSIVE DoubleQuotes(_)
DoubleQuotes(str) ==
  IF Len(str) = 0 THEN <<>>
  ELSE (IF Head(str) = "\"" THEN <<"\"", "\"">> ELSE <<Head(str)>>) \o DoubleQuotes(Tail(str))

\* escapeCSV: the apostrophe in front of a formula trigger.
Neutralize(str) ==
  IF Len(str) > 0 /\ str[1] \in FormulaTriggers THEN <<"'">> \o str ELSE str

\* Mutant of Wrap: a value with a comma is stored as it is.
Wrap_QuotesOnly(str) ==
  IF \E i \in DOMAIN str : str[i] \in {"\"", "\n"}
  THEN <<"\"">> \o DoubleQuotes(str) \o <<"\"">>
  ELSE str

\* escapeCSV: the double quotes around a value with a comma, a double quote
\* or a newline.
Wrap(str) ==
  IF \E i \in DOMAIN str : str[i] \in {",", "\"", "\n"}
  THEN <<"\"">> \o DoubleQuotes(str) \o <<"\"">>
  ELSE str

escapeCSV(value) == IF value = Null THEN <<>> ELSE Wrap(Neutralize(value))

\* Array.prototype.join.
RECURSIVE Join(_, _)
Join(texts, sep) ==
  IF Len(texts) = 0 THEN <<>>
  ELSE IF Len(texts) = 1 THEN texts[1]
  ELSE texts[1] \o sep \o Join(Tail(texts), sep)

buildCSVRow(values) == Join([i \in DOMAIN values |-> escapeCSV(values[i])], <<",">>)

\* String.prototype.split on one character, from position i on.
RECURSIVE SplitFrom(_, _, _, _)
SplitFrom(text, sep, i, current) ==
  IF i > Len(text) THEN <<current>>
  ELSE IF text[i] = sep THEN <<current>> \o SplitFrom(text, sep, i + 1, <<>>)
  ELSE SplitFrom(text, sep, i + 1, Append(current, text[i]))

Split(text, sep) == SplitFrom(text, sep, 1, <<>>)

\* The for loop of parseCSVRow from position i on.
RECURSIVE ParseFrom(_, _, _, _)
ParseFrom(row, i, current, inQuotes) ==
  IF i > Len(row) THEN <<current>>
  ELSE IF row[i] = "\""
       THEN IF inQuotes /\ i + 1 <= Len(row) /\ row[i + 1] = "\""
            THEN ParseFrom(row, i + 2, Append(current, "\""), inQuotes)
            ELSE ParseFrom(row, i + 1, current, ~inQuotes)
  ELSE IF row[i] = "," /\ ~inQuotes
       THEN <<current>> \o ParseFrom(row, i + 1, <<>>, inQuotes)
  ELSE ParseFrom(row, i + 1, Append(current, row[i]), inQuotes)

\* Mutant of parseCSVRow: the row is cut at every comma.
parseCSVRow_SplitAtCommas(row) == Split(row, ",")

parseCSVRow(row) == ParseFrom(row, 1, <<>>, FALSE)

\* Array.prototype.indexOf, counted from 1; 0 stands for -1.
IndexOf(s, x) ==
  IF \E i \in DOMAIN s : s[i] = x
  THEN CHOOSE i \in DOMAIN s : s[i] = x /\ \A j \in 1..(i - 1) : s[j] # x
  ELSE 0

\* content.split("\n").filter(line => line.trim()).
NonBlankLines(content) == SelectSeq(Split(content, "\n"), LAMBDA line : Trim(line) # <<>>)

\* migrateCSVIfNeeded: new column index -> old column index.
ColumnMapping(existingHeader, expectedHeader) ==
  [j \in DOMAIN parseCSVRow(expectedHeader) |->
     IndexOf(parseCSVRow(existingHeader), parseCSVRow(expectedHeader)[j])]

\* migrateCSVIfNeeded: one row under the new header
\* (oldIndex >= 0 ? oldValues[oldIndex] || "" : "").
MigrateRow(oldValues, columnMapping) ==
  buildCSVRow([j \in DOMAIN columnMapping |->
                 IF columnMapping[j] \in DOMAIN oldValues
                 THEN oldValues[columnMapping[j]] ELSE <<>>])

\* Mutant of MigratedContent: rows whose values are all empty under the new
\* header are left out.
MigratedContent_DropsEmptyRows(lines, expectedHeader) ==
  Join(SelectSeq([i \in DOMAIN lines |->
                    IF i = 1 THEN expectedHeader
                    ELSE MigrateRow(parseCSVRow(lines[i]), ColumnMapping(lines[1], expectedHeader))],
                 LAMBDA line : \E i \in DOMAIN line : line[i] # ","),
       <<"\n">>) \o <<"\n">>

\* migrateCSVIfNeeded: the text handed to fs.writeFile.
MigratedContent(lines, expectedHeader) ==
  Join([i \in DOMAIN lines |->
          IF i = 1 THEN expectedHeader
          ELSE MigrateRow(parseCSVRow(lines[i]), ColumnMapping(lines[1], expectedHeader))],
       <<"\n">>) \o <<"\n">>

\* What a write that fails part-way leaves of text: its first cut characters,
\* never all of it.
Partial(text, cut) ==
  SubSeq(text, 1, IF cut < Len(text) THEN cut ELSE Len(text) - 1)

\* The files of one ledger: the ledger file and its backups
\* (<path>.bak-<Date.now()>), each with the time in its name and whether
\* fs.copyFile completed.
NoLedgerFile == [exists |-> FALSE, content |-> <<>>]
NoFault == [op |-> "none", cut |-> 0]

\* Mutant of Rewrite: the file is rewritten although the backup failed.
Rewrite_WithoutBackup(d, newContent, fault) ==
  IF fault.op = "writeFile"
  THEN [d EXCEPT !.ledger.content = Partial(newContent, fault.cut), !.stderr = @ + 1,
                 !.thrown = FALSE]
  ELSE [d EXCEPT !.ledger.content = newContent, !.thrown = FALSE]

\* migrateCSVIfNeeded: fs.writeFile after the backup; the catch logs a
\* failure.
Rewrite(d, newContent, fault) ==
  IF d.thrown THEN [d EXCEPT !.thrown = FALSE, !.stderr = @ + 1]
  ELSE IF fault.op = "writeFile"
       THEN [d EXCEPT !.ledger.content = Partial(newContent, fault.cut), !.stderr = @ + 1]
       ELSE [d EXCEPT !.ledger.content = newContent]

\* migrateCSVIfNeeded: fs.copyFile(filePath, backupPath).
Backup(d, fault, t) ==
  IF fault.op = "copyFile"
  THEN [d EXCEPT !.thrown = TRUE,
                 !.backups = Append(@, [at |-> t, complete |-> FALSE,
                                        content |-> Partial(d.ledger.content, fault.cut)])]
  ELSE [d EXCEPT !.backups = Append(@, [at |-> t, complete |-> TRUE,
                                        content |-> d.ledger.content])]

\* Mutant of migrateCSVFile: a file that has the expected header is
\* rewritten like any other.
migrateCSVFile_AlwaysRewrites(d, lines, expectedHeader, fault, t) ==
  IF fault.op = "readFile" THEN [d EXCEPT !.stderr = @ + 1]
  ELSE IF Len(lines) = 0
       THEN [d EXCEPT !.ledger.content = @ \o expectedHeader \o <<"\n">>]
  ELSE Rewrite(Backup(d, fault, t), MigratedContent(lines, expectedHeader), fault)

\* migrateCSVIfNeeded on the files d of one ledger.
migrateCSVFile(d, lines, expectedHeader, fault, t) ==
  IF fault.op = "readFile" THEN [d EXCEPT !.stderr = @ + 1]
  ELSE IF Len(lines) = 0
       THEN [d EXCEPT !.ledger.content = @ \o expectedHeader \o <<"\n">>]
  ELSE IF lines[1] = expectedHeader THEN d
  ELSE Rewrite(Backup(d, fault, t), MigratedContent(lines, expectedHeader), fault)

\* One task of ensureCSVHeaders on the files d of one ledger.
ensureHeader(d, expectedHeader, fault, t) ==
  IF ~d.ledger.exists
  THEN [d EXCEPT !.ledger = [exists |-> TRUE, content |-> expectedHeader \o <<"\n">>]]
  ELSE migrateCSVFile(d, NonBlankLines(d.ledger.content), expectedHeader, fault, t)

\* appendCSV of a data row: fs.appendFile(filePath, data + "\n"), which may
\* fail part-way with an error that is not retried.
appendRow(d, data, fault) ==
  IF fault.op = "appendFile"
  THEN [d EXCEPT !.ledger.content = @ \o Partial(data \o <<"\n">>, fault.cut), !.stderr = @ + 1]
  ELSE [d EXCEPT !.ledger.content = @ \o data \o <<"\n">>]

\* ------------------------------------------------------------------- state
VARIABLES
  stateFiles,   \* state/<session>.json of every session: absent or the saved state
  csvFiles,     \* the ledger files: [exists, lines], the header line first
  now,          \* Date.now() of the next invocation
  history,      \* observer: per invocation the event, its time, the exit code, the number
                \* of diagnostics, the tool keys used, the session's state file before
                \* and after, and the number of data rows appended to each ledger
  running,      \* the processes that run side by side: per process its position,
                \* its event and what fileExists answered for each ledger
  disk          \* one ledger as text: the ledger file, its backup files, the number
                \* of diagnostics of the operations on it

vars == <<stateFiles, csvFiles, now, history, running, disk>>


\* ------------------------------------------------------------ ledger writer
\* CONFIG.CSV_HEADERS[k]: the header line of ledger k.
CSV_HEADERS == [k \in Ledgers |-> [header |-> k]]
IsHeader(line) == "header" \in DOMAIN line

\* fs.appendFile when it succeeds: the line goes to the end of the file,
\* which is created when it does not exist.
appendFile(csv, k, data) ==
  [csv EXCEPT ![k] = [exists |-> TRUE, lines |-> Append(@.lines, data)]]

\* migrateCSVIfNeeded: nothing to do when the first line is the expected
\* header; an empty file gets the header; otherwise the file is rewritten
\* under the new header (rows are keyed by column name here, so the column
\* mapping keeps them).
migrateCSVIfNeeded(csv, k, expectedHeader) ==
  LET lines == csv[k].lines
  IN IF Len(lines) = 0 THEN appendFile(csv, k, expectedHeader)
     ELSE IF lines[1] = expectedHeader THEN csv
     ELSE [csv EXCEPT ![k].lines = <<expectedHeader>> \o Tail(lines)]

\* ensureCSVHeaders: every ledger file that does not exist is created with its
\* header; an existing one is migrated if needed.  The tasks touch disjoint
\* files; their appends succeed at the first attempt.
fileExists(csv) == [k \in Ledgers |-> csv[k].exists]

\* The second half of every task of ensureCSVHeaders, given what fileExists
\* answered for each ledger.
WriteHeaders(csv, exists) ==
  [k \in Ledgers |->
     IF ~exists[k]
     THEN appendFile(csv, k, CSV_HEADERS[k])[k]
     ELSE migrateCSVIfNeeded(csv, k, CSV_HEADERS[k])[k]]

ensureCSVHeaders(csv) == WriteHeaders(csv, fileExists(csv))

\* The data rows of ledger k, and those of one session.
Rows(csv, k) == SelectSeq(csv[k].lines, LAMBDA l : ~IsHeader(l))
RowsOf(csv, k, sessionId) == SelectSeq(Rows(csv, k), LAMBDA l : l.session_id = sessionId)

\* ------------------------------------------------------- session state store
NoStateFile == [status |-> "absent"]
\* A state file whose write broke off (the process died, the disk was
\* full): fs.writeFile truncates the file and then writes, so the file holds
\* the beginning of the JSON text at most, which JSON.parse rejects.
TornStateFile == [status |-> "corrupt"]

\* A new process: the constructor's empty in-memory maps (seen for the
\* session of the event), the session's state file and the ledgers on disk,
\* the number of console.error diagnostics, and the keys the handler used;
\* io: the outcomes of the fs.appendFile calls the handlers will make, in
\* order ("ok" once the sequence is used up); thrown: the exception that is
\* propagating; calls: per appendCSV call the ledger and the outcomes of its
\* attempts; save: the outcome of the fs.writeFile calls of saveTurnState.
NewProcess(file, csv) ==
  [currentTurn |-> None, toolStartData |-> None, toolCounter |-> None,
   file |-> file, csv |-> csv, stderr |-> 0, toolKey |-> None, matchingKey |-> None,
   io |-> <<>>, thrown |-> None, calls |-> <<>>, exit |-> None, initialized |-> FALSE,
   save |-> "ok"]

\* An exception is propagating: the statements that follow are not executed.
Thrown(p) == IsSome(p.thrown)

\* Mutant of loadTurnState: the error of a file that cannot be parsed is
\* raised to the handler.
loadTurnState_Raises(p) ==
  IF p.file.status = "ok"
  THEN [p EXCEPT !.currentTurn = Some(p.file.currentTurn),
                 !.toolStartData = Some(p.file.toolStartData),
                 !.toolCounter = Some(p.file.toolCounter)]
  ELSE IF p.file.status = "corrupt"
       THEN [p EXCEPT !.thrown = Some([code |-> "", message |-> "SyntaxError"])]
  ELSE p

\* loadTurnState: a file that cannot be read or parsed gives a diagnostic
\* and no state.
loadTurnState(p) ==
  IF p.file.status = "ok"
  THEN [p EXCEPT !.currentTurn = Some(p.file.currentTurn),
                 !.toolStartData = Some(p.file.toolStartData),
                 !.toolCounter = Some(p.file.toolCounter)]
  ELSE IF p.file.status = "corrupt" THEN [p EXCEPT !.stderr = @ + 1]
  ELSE p

\* saveTurnState: nothing is written without a turn; a write that fails
\* gives a diagnostic and leaves the file as it was (EACCES) or torn
\* (ENOSPC).
saveTurnState(p) ==
  IF Thrown(p) THEN p
  ELSE IF IsSome(p.currentTurn) /\ p.save # "ok"
  THEN [p EXCEPT !.stderr = @ + 1,
                 !.file = IF p.save = "ENOSPC" THEN TornStateFile ELSE @]
  ELSE IF IsSome(p.currentTurn)
  THEN [p EXCEPT !.file =
          [status |-> "ok",
           currentTurn |-> Get(p.currentTurn),
           toolStartData |-> IF IsSome(p.toolStartData) THEN Get(p.toolStartData) ELSE <<>>,
           toolCounter |-> IF IsSome(p.toolCounter) THEN Get(p.toolCounter) ELSE 0]]
  ELSE p

\* ------------------------------------------------ transcripts (environment)
Usage(i, o, cw, cr) ==
  [input_tokens |-> i, output_tokens |-> o,
   cache_creation_input_tokens |-> cw, cache_read_input_tokens |-> cr]
AssistantLine(id, model, usage, ts) ==
  [json |-> TRUE, type |-> "assistant", usage |-> Some(usage), model |-> model,
   id |-> id, timestamp |-> ts]
UserLine == [json |-> TRUE, type |-> "user", usage |-> None, model |-> "", id |-> "", timestamp |-> 0]
GarbageLine == [json |-> FALSE, type |-> "", usage |-> None, model |-> "", id |-> "", timestamp |-> 0]

\* The transcript of the host runtime grows while the session runs: at time t
\* the file holds the first t + 1 lines of TranscriptLines ("" is no path, any
\* other path is a missing file).
TranscriptLines ==
  <<AssistantLine("m1", SONNET, Usage(1000, 200, 0, 0), 1),
    UserLine,
    AssistantLine("m2", HAIKU, Usage(3000, 100, 0, 0), 2),
    GarbageLine,
    AssistantLine("m3", "unknown-model", Usage(500, 0, 100, 100), 3),
    AssistantLine("m4", SONNET, Usage(10, 10, 10, 10), 0),
    UserLine,
    AssistantLine("m5", HAIKU, Usage(20, 20, 20, 20), 5)>>
TranscriptPaths == {"t.jsonl"}
TranscriptFile(path, t) ==
  IF path \in TranscriptPaths
  THEN [exists |-> TRUE,
        lines |-> SubSeq(TranscriptLines, 1, IF t + 1 < Len(TranscriptLines) THEN t + 1 ELSE Len(TranscriptLines))]
  ELSE [exists |-> FALSE, lines |-> <<>>]

\* ------------------------------------------------------------ cost calculator
\* CONFIG.PRICING[modelName] || CONFIG.PRICING[CONFIG.DEFAULT_MODEL]
ModelPricing(modelName) ==
  IF modelName \in DOMAIN PRICING THEN PRICING[modelName] ELSE PRICING[DEFAULT_MODEL]

\* Mutant of TierPricing: the extended tier starts at the threshold.
TierPricing_AtThreshold(usage, modelPricing) ==
  IF usage.input_tokens + usage.cache_creation_input_tokens + usage.cache_read_input_tokens
       >= EXTENDED_CONTEXT_THRESHOLD
  THEN modelPricing.extended ELSE modelPricing.standard

\* The tier of a request: extended above the threshold on all input tokens.
TierPricing(usage, modelPricing) ==
  IF usage.input_tokens + usage.cache_creation_input_tokens + usage.cache_read_input_tokens
       > EXTENDED_CONTEXT_THRESHOLD
  THEN modelPricing.extended ELSE modelPricing.standard

\* The four costs and their sum under one tier's prices.
TokenCosts(usage, pricing) ==
  LET inputCost == usage.input_tokens * pricing.input
      outputCost == usage.output_tokens * pricing.output
      cacheWriteCost == usage.cache_creation_input_tokens * pricing.cacheWrite
      cacheReadCost == usage.cache_read_input_tokens * pricing.cacheRead
  IN [input_cost_usd |-> inputCost, output_cost_usd |-> outputCost,
      cache_write_cost_usd |-> cacheWriteCost, cache_read_cost_usd |-> cacheReadCost,
      total_cost_usd |-> inputCost + outputCost + cacheWriteCost + cacheReadCost]

calculateTokenCost(usage, modelName) ==
  TokenCosts(usage, TierPricing(usage, ModelPricing(modelName)))

\* One token record of parseTranscriptTokens, from the entry's usage and costs.
TokenRecordOf(entry, usage, costs) ==
  [message_id |-> entry.id, input_tokens |-> usage.input_tokens,
   output_tokens |-> usage.output_tokens,
   total_tokens |-> usage.input_tokens + usage.output_tokens,
   model_name |-> entry.model, timestamp |-> entry.timestamp,
   input_cost_usd |-> costs.input_cost_usd, output_cost_usd |-> costs.output_cost_usd,
   total_cost_usd |-> costs.total_cost_usd]

TokenRecord(entry) ==
  TokenRecordOf(entry, Get(entry.usage), calculateTokenCost(Get(entry.usage), entry.model))

\* parseTranscriptTokens: a record for every line that parses as an assistant
\* entry with a usage object, in file order; a missing file gives none.
parseTranscriptTokens(transcript) ==
  IF ~transcript.exists THEN <<>>
  ELSE LET usable == SelectSeq(transcript.lines,
                       LAMBDA e : e.json /\ e.type = "assistant" /\ IsSome(e.usage))
       IN [i \in 1..Len(usable) |-> TokenRecord(usable[i])]


\* ------------------------------------------------------ turn/tool state machine
\* Mutant of appendLoop: every failure is retried, not only a busy file.
RECURSIVE appendLoop_RetryAnyError(_, _)
appendLoop_RetryAnyError(io, retries) ==
  IF ~(retries < MAX_RETRIES) THEN [tried |-> <<>>, result |-> "returned"]
  ELSE IF Len(io) = 0 \/ Head(io) = "ok" THEN [tried |-> <<"ok">>, result |-> "written"]
  ELSE IF retries < MAX_RETRIES - 1
       THEN [tried |-> <<Head(io)>> \o appendLoop_RetryAnyError(Tail(io), retries + 1).tried,
             result |-> appendLoop_RetryAnyError(Tail(io), retries + 1).result]
       ELSE [tried |-> <<Head(io)>>, result |-> "thrown"]

\* The while loop of appendCSV from the attempt numbered retries on, against
\* the outcomes io of the coming fs.appendFile calls: the outcomes of the
\* attempts made and how the call ends.
RECURSIVE appendLoop(_, _)
appendLoop(io, retries) ==
  IF ~(retries < MAX_RETRIES) THEN [tried |-> <<>>, result |-> "returned"]
  ELSE IF Len(io) = 0 \/ Head(io) = "ok" THEN [tried |-> <<"ok">>, result |-> "written"]
  ELSE IF Head(io) = "EBUSY" /\ retries < MAX_RETRIES - 1
       THEN [tried |-> <<Head(io)>> \o appendLoop(Tail(io), retries + 1).tried,
             result |-> appendLoop(Tail(io), retries + 1).result]
       ELSE [tried |-> <<Head(io)>>, result |-> "thrown"]

\* appendCSV given the course r of its loop: the row is appended by the
\* attempt that succeeds; a failure is thrown as a new Error whose message
\* holds the message of the last one (and that has no code).
AppendResult(p, k, data, r) ==
  [p EXCEPT !.csv = IF r.result = "written" THEN appendFile(@, k, data) ELSE @,
            !.io = SubSeq(@, Len(r.tried) + 1, Len(@)),
            !.thrown = IF r.result = "thrown"
                       THEN Some([code |-> "", message |-> r.tried[Len(r.tried)]])
                       ELSE None,
            !.calls = Append(@, [ledger |-> k, tried |-> r.tried, result |-> r.result])]

appendCSV(p, k, data) == AppendResult(p, k, data, appendLoop(p.io, 0))

\* catch (error) { console.error(...) }: the exception, if any, ends here
\* with n diagnostics.
Caught(p, n) == IF Thrown(p) THEN [p EXCEPT !.thrown = None, !.stderr = @ + n] ELSE p

\* An await appendCSV(...) statement of a handler.
Append2(p, k, data) == IF Thrown(p) THEN p ELSE appendCSV(p, k, data)

\* JSON.stringify(x || {}).length for an absent value or {command: c}.
JsonLength(x) == IF IsSome(x) THEN 14 + Len(Get(x).command) ELSE 2

getCurrentTurnNumber(p) ==
  IF IsSome(p.currentTurn) THEN OrNum(Get(p.currentTurn).number, 1) ELSE 1

writeTurnData(p, sessionId, endTime, wasInterrupted) ==
  IF ~IsSome(p.currentTurn) THEN p
  ELSE Append2(p, "turns",
         [session_id |-> sessionId,
          turn_number |-> Get(p.currentTurn).number,
          started_at |-> Get(p.currentTurn).startTime,
          ended_at |-> endTime,
          tool_count |-> Get(p.currentTurn).toolCount,
          total_cost_usd |-> Get(p.currentTurn).turnCost,
          was_interrupted |-> IF wasInterrupted THEN 1 ELSE 0])

\* Mutant of NextTurn: the turn number grows by 2.
NextTurn_SkipNumber(currentTurn, t) ==
  IF ~IsSome(currentTurn)
  THEN [number |-> 1, startTime |-> t, toolCount |-> 0, turnCost |-> 0, totalSessionCost |-> 0]
  ELSE [Get(currentTurn) EXCEPT !.number = @ + 2, !.startTime = t,
                                !.toolCount = 0, !.turnCost = 0]

\* Mutant of NextTurn: the start time of the turn before is kept.
NextTurn_KeepStartTime(currentTurn, t) ==
  IF ~IsSome(currentTurn)
  THEN [number |-> 1, startTime |-> t, toolCount |-> 0, turnCost |-> 0, totalSessionCost |-> 0]
  ELSE [Get(currentTurn) EXCEPT !.number = @ + 1, !.toolCount = 0, !.turnCost = 0]

\* Mutant of NextTurn: the tool count is carried into the next turn.
NextTurn_KeepToolCount(currentTurn, t) ==
  IF ~IsSome(currentTurn)
  THEN [number |-> 1, startTime |-> t, toolCount |-> 0, turnCost |-> 0, totalSessionCost |-> 0]
  ELSE [Get(currentTurn) EXCEPT !.number = @ + 1, !.startTime = t, !.turnCost = 0]

\* Mutant of NextTurn: the cumulative session cost is reset with the turn.
NextTurn_ResetSessionCost(currentTurn, t) ==
  IF ~IsSome(currentTurn)
  THEN [number |-> 1, startTime |-> t, toolCount |-> 0, turnCost |-> 0, totalSessionCost |-> 0]
  ELSE [Get(currentTurn) EXCEPT !.number = @ + 1, !.startTime = t,
                                !.toolCount = 0, !.turnCost = 0, !.totalSessionCost = 0]

\* The turn opened by UserPromptSubmit: the first one, or the next one with the
\* per-turn fields reset and totalSessionCost kept.
NextTurn(currentTurn, t) ==
  IF ~IsSome(currentTurn)
  THEN [number |-> 1, startTime |-> t, toolCount |-> 0, turnCost |-> 0, totalSessionCost |-> 0]
  ELSE [Get(currentTurn) EXCEPT !.number = @ + 1, !.startTime = t,
                                !.toolCount = 0, !.turnCost = 0]

\* if (!this.currentTurn[sessionId]) await this.loadTurnState(sessionId)
LoadIfAbsent(p) == IF ~IsSome(p.currentTurn) THEN loadTurnState(p) ELSE p

\* handleTurnStart, first step: the open turn, if any, is written to the ledger.
CloseTurn(p, sessionId, t) ==
  IF IsSome(p.currentTurn) THEN writeTurnData(p, sessionId, t, FALSE) ELSE p

\* Mutant of OpenTurn: the new turn starts without in-flight entries.
OpenTurn_ClearsInFlight(p, t) ==
  IF Thrown(p) THEN p
  ELSE [p EXCEPT !.currentTurn = Some(NextTurn(@, t)), !.toolStartData = Some(<<>>)]

\* handleTurnStart, second step: the next turn becomes the open one.
OpenTurn(p, t) ==
  IF Thrown(p) THEN p ELSE [p EXCEPT !.currentTurn = Some(NextTurn(@, t))]

\* Mutant of RecordPrompt: the length recorded is that of the untrimmed text.
RecordPrompt_UntrimmedLength(p, sessionId, prompt, c, t) ==
  IF Len(prompt) > 0 /\ Len(Trim(prompt)) > 0
  THEN Append2(p, "prompts",
         [session_id |-> sessionId,
          turn_number |-> Get(p.currentTurn).number,
          category |-> c.category,
          subcategory |-> c.subcategory,
          prompt_length |-> Len(prompt),
          timestamp |-> t])
  ELSE p

\* handleTurnStart, last step: a prompt that is not blank is classified (c)
\* and recorded.
RecordPrompt(p, sessionId, prompt, c, t) ==
  IF Thrown(p) THEN p
  ELSE IF Len(prompt) > 0 /\ Len(Trim(prompt)) > 0
  THEN Append2(p, "prompts",
         [session_id |-> sessionId,
          turn_number |-> Get(p.currentTurn).number,
          category |-> c.category,
          subcategory |-> c.subcategory,
          prompt_length |-> Len(Trim(prompt)),
          timestamp |-> t])
  ELSE p

\* Mutant of handleTurnStart: the state is saved after the prompt is recorded.
handleTurnStart_SaveLast(p0, sessionId, eventData, t) ==
  saveTurnState(RecordPrompt(OpenTurn(CloseTurn(LoadIfAbsent(p0), sessionId, t), t),
                             sessionId, eventData.prompt, categorizePrompt(eventData.prompt), t))

handleTurnStart(p0, sessionId, eventData, t) ==
  RecordPrompt(saveTurnState(OpenTurn(CloseTurn(LoadIfAbsent(p0), sessionId, t), t)),
               sessionId, eventData.prompt, categorizePrompt(eventData.prompt), t)

\* /git\s+<verb>/.test(command)
GitVerb(command, verb) ==
  \E i \in 1..Len(command) : \E j \in (i + 4)..Len(command) :
     /\ SubSeq(command, i, i + 2) = <<"g", "i", "t">>
     /\ \A k \in (i + 3)..(j - 1) : command[k] \in WhiteSpace
     /\ j + Len(verb) - 1 <= Len(command)
     /\ SubSeq(command, j, j + Len(verb) - 1) = verb

\* handleGitOperations: one gitOps row for the first of push, pull, fetch,
\* clone, merge that the command names (branch and remote are not modelled).
handleGitOperations(p, sessionId, command, t) ==
  LET operationType ==
        IF GitVerb(command, <<"p", "u", "s", "h">>) THEN "push"
        ELSE IF GitVerb(command, <<"p", "u", "l", "l">>) THEN "pull"
        ELSE IF GitVerb(command, <<"f", "e", "t", "c", "h">>) THEN "fetch"
        ELSE IF GitVerb(command, <<"c", "l", "o", "n", "e">>) THEN "clone"
        ELSE IF GitVerb(command, <<"m", "e", "r", "g", "e">>) THEN "merge"
        ELSE "null"
  IN IF operationType # "null"
     THEN Append2(p, "gitOps", [session_id |-> sessionId, operation_type |-> operationType,
                                timestamp |-> t, success |-> 1])
     ELSE p

\* handleGitCommand: after a git commit command, one commits row when the git
\* queries succeed, a diagnostic when they fail.
handleGitCommand(p, sessionId, command, gitOk) ==
  IF ~GitVerb(command, <<"c", "o", "m", "m", "i", "t">>) THEN p
  ELSE IF gitOk
       THEN Caught(Append2(p, "commits", [session_id |-> sessionId, commit_sha |-> "HEAD"]), 1)
  ELSE [p EXCEPT !.stderr = @ + 1]

\* The counter after this.toolCounter[sessionId]++ (initialized to 0 when falsy).
NextToolCounter(toolCounter) ==
  (IF IsSome(toolCounter) THEN Get(toolCounter) ELSE 0) + 1

\* handleToolStart: the open turn, if any, counts one more tool.
CountTool(p) ==
  IF IsSome(p.currentTurn)
  THEN [p EXCEPT !.currentTurn = Some([Get(@) EXCEPT !.toolCount = @ + 1])]
  ELSE p

\* handleToolStart: the session's counter is advanced.
AdvanceToolCounter(p) == [p EXCEPT !.toolCounter = Some(NextToolCounter(@))]

\* this.toolStartData[sessionId][toolKey] = data
StoreToolStart(p, toolKey, data) ==
  [p EXCEPT !.toolKey = Some(toolKey),
            !.toolStartData = Some(ObjSet(IF IsSome(@) THEN Get(@) ELSE <<>>, toolKey, data))]

\* handleToolStart: the in-flight entry under the key made of the session, the
\* tool name and the counter just allocated (the turn number read here is the
\* one read before the counters were advanced: they do not change it).
TrackToolStart(p, sessionId, toolName, eventData, t) ==
  StoreToolStart(p, <<sessionId, toolName, Get(p.toolCounter)>>,
                 [toolName |-> toolName,
                  turnNumber |-> getCurrentTurnNumber(p),
                  startTime |-> t,
                  inputSize |-> JsonLength(eventData.tool_input)])

\* handleToolStart, last step: git operations of a Bash command.
ToolStartGit(p, sessionId, toolName, eventData, t) ==
  IF Thrown(p) THEN p
  ELSE IF toolName = "Bash" /\ IsSome(eventData.tool_input) /\ Len(Get(eventData.tool_input).command) > 0
  THEN handleGitOperations(p, sessionId, Get(eventData.tool_input).command, t)
  ELSE p

handleToolStart(p0, sessionId, toolName, eventData, t) ==
  ToolStartGit(
    saveTurnState(
      TrackToolStart(AdvanceToolCounter(CountTool(LoadIfAbsent(p0))),
                     sessionId, toolName, eventData, t)),
    sessionId, toolName, eventData, t)

\* Mutant of FindMatchingKey: the most recent entry, whatever its tool name.
FindMatchingKey_AnyTool(toolStartData, toolName) ==
  LET keys == Reverse(ObjKeys(toolStartData))
  IN FindFirst(keys, {i \in 1..Len(keys) : TRUE})

\* Mutant of FindMatchingKey: first-in-first-out (no reverse).
FindMatchingKey_Oldest(toolStartData, toolName) ==
  LET keys == ObjKeys(toolStartData)
  IN FindFirst(keys, {i \in 1..Len(keys) : ObjGet(toolStartData, keys[i]).toolName = toolName})

\* Object.keys(toolStartData).reverse().find(key => ... .toolName === toolName)
FindMatchingKey(toolStartData, toolName) ==
  LET keys == Reverse(ObjKeys(toolStartData))
  IN FindFirst(keys, {i \in 1..Len(keys) : ObjGet(toolStartData, keys[i]).toolName = toolName})

\* Mutant of ToolRow: the row carries the turn open at the finish.
ToolRow_CurrentTurn(p, startData, sessionId, toolName, eventData, t) ==
  Append2(p, "tools",
    [session_id |-> sessionId,
     turn_number |-> getCurrentTurnNumber(p),
     tool_name |-> toolName,
     started_at |-> startData.startTime,
     completed_at |-> t,
     success |-> IF eventData.success THEN "1" ELSE "0",
     processing_time_ms |-> t - startData.startTime,
     input_size |-> startData.inputSize,
     output_size |-> JsonLength(eventData.tool_output)])

\* handleToolEnd: the Tool Invocation row of a matched completion.
ToolRow(p, startData, sessionId, toolName, eventData, t) ==
  Append2(p, "tools",
    [session_id |-> sessionId,
     turn_number |-> startData.turnNumber,
     tool_name |-> toolName,
     started_at |-> startData.startTime,
     completed_at |-> t,
     success |-> IF eventData.success THEN "1" ELSE "0",
     processing_time_ms |-> t - startData.startTime,
     input_size |-> startData.inputSize,
     output_size |-> JsonLength(eventData.tool_output)])

\* delete this.toolStartData[sessionId][matchingKey]
ForgetToolStart(p, matchingKey) ==
  IF Thrown(p) THEN p ELSE
  [p EXCEPT !.matchingKey = Some(matchingKey),
            !.toolStartData = Some(ObjDelete(Get(@), matchingKey))]

\* handleToolEnd: the commit of a Bash git command.
ToolEndGit(p, startData, sessionId, toolName, eventData) ==
  IF Thrown(p) THEN p
  ELSE IF /\ toolName = "Bash" /\ startData.inputSize # 0
     /\ IsSome(eventData.tool_input) /\ Len(Get(eventData.tool_input).command) > 0
  THEN handleGitCommand(p, sessionId, Get(eventData.tool_input).command, eventData.gitOk)
  ELSE p

\* Mutant of CompleteTool: the entry is removed and the state saved before
\* the row is appended.
CompleteTool_ForgetFirst(p, matchingKey, sessionId, toolName, eventData, t) ==
  IF ~IsSome(matchingKey)
  THEN [p EXCEPT !.stderr = @ + 1]
  ELSE ToolEndGit(
         ToolRow(saveTurnState(ForgetToolStart(p, Get(matchingKey))),
                 ObjGet(Get(p.toolStartData), Get(matchingKey)),
                 sessionId, toolName, eventData, t),
         ObjGet(Get(p.toolStartData), Get(matchingKey)),
         sessionId, toolName, eventData)

\* handleToolEnd after the search: a warning and nothing else without a match;
\* with one, the row, the removal of the entry, the commit and the save.
CompleteTool(p, matchingKey, sessionId, toolName, eventData, t) ==
  IF ~IsSome(matchingKey)
  THEN [p EXCEPT !.stderr = @ + 1]
  ELSE saveTurnState(
         ToolEndGit(
           ForgetToolStart(
             ToolRow(p, ObjGet(Get(p.toolStartData), Get(matchingKey)),
                     sessionId, toolName, eventData, t),
             Get(matchingKey)),
           ObjGet(Get(p.toolStartData), Get(matchingKey)),
           sessionId, toolName, eventData))

\* handleToolEnd after the load: the search for the in-flight entry.
MatchToolEnd(p, sessionId, toolName, eventData, t) ==
  CompleteTool(p,
               IF IsSome(p.toolStartData)
               THEN FindMatchingKey(Get(p.toolStartData), toolName)
               ELSE None,
               sessionId, toolName, eventData, t)

handleToolEnd(p0, sessionId, toolName, eventData, t) ==
  MatchToolEnd(LoadIfAbsent(p0), sessionId, toolName, eventData, t)


\* ((reductionTokens / tokensBefore) * 100).toFixed(2), in hundredths of a
\* percent, rounded to the nearest; 0 when tokensBefore is 0.
ReductionPercent(reductionTokens, tokensBefore) ==
  IF tokensBefore > 0
  THEN IF reductionTokens >= 0
       THEN (2 * 10000 * reductionTokens + tokensBefore) \div (2 * tokensBefore)
       ELSE 0 - ((2 * 10000 * (0 - reductionTokens) + tokensBefore) \div (2 * tokensBefore))
  ELSE 0

\* handleCompaction reads the turn number from the in-memory map without
\* loading the session's state file.
handleCompaction(p, sessionId, eventData, t) ==
  LET turnNumber == getCurrentTurnNumber(p)
      tokensBefore == eventData.tokens_before
      tokensAfter == eventData.tokens_after
      reductionTokens == tokensBefore - tokensAfter
  IN Append2(p, "compactions",
       [session_id |-> sessionId,
        turn_number |-> turnNumber,
        timestamp |-> t,
        tokens_before |-> tokensBefore,
        tokens_after |-> tokensAfter,
        reduction_tokens |-> reductionTokens,
        reduction_percent |-> ReductionPercent(reductionTokens, tokensBefore),
        compaction_type |-> "auto",
        trigger_reason |-> "threshold"])

\* updateSessionRecord catches the failure of its append and logs it.
updateSessionRecord(p, sessionId, turnCount, totalCost, wasInterrupted, endTime) ==
  Caught(
    Append2(p, "sessions",
      [session_id |-> sessionId,
       started_at |-> IF IsSome(p.currentTurn) THEN Get(p.currentTurn).startTime ELSE 0,
       ended_at |-> endTime,
       turn_count |-> turnCount,
       total_cost_usd |-> totalCost,
       interrupted_turns |-> IF wasInterrupted THEN 1 ELSE 0]),
    1)

\* Mutant of cleanupSession: the state file is deleted with the entries.
cleanupSession_DeletesStateFile(p) ==
  [p EXCEPT !.currentTurn = None, !.toolStartData = None, !.toolCounter = None,
            !.file = NoStateFile]

\* cleanupSession deletes the in-memory entries only; the state file stays.
cleanupSession(p) ==
  [p EXCEPT !.currentTurn = None, !.toolStartData = None, !.toolCounter = None]

\* The cost fields of the turn after a Stop whose latest token record costs c.
AddCost(currentTurn, c) ==
  [currentTurn EXCEPT !.turnCost = c, !.totalSessionCost = @ + c]

\* handleSessionEnd: the Cost Record of the latest token record, and its cost
\* entered into the open turn, which is saved.
EnterCost(p, c) ==
  IF Thrown(p) THEN p ELSE [p EXCEPT !.currentTurn = Some(AddCost(Get(@), c))]

RecordCost(p, latestRecord, sessionId, turnNumber, t) ==
  saveTurnState(
    EnterCost(
      Append2(p, "costs",
       [session_id |-> sessionId,
        turn_number |-> turnNumber,
        message_id |-> latestRecord.message_id,
        model |-> latestRecord.model_name,
        input_tokens |-> latestRecord.input_tokens,
        output_tokens |-> latestRecord.output_tokens,
        total_tokens |-> latestRecord.total_tokens,
        input_cost_usd |-> latestRecord.input_cost_usd,
        output_cost_usd |-> latestRecord.output_cost_usd,
        total_cost_usd |-> latestRecord.total_cost_usd,
        timestamp |-> OrNum(latestRecord.timestamp, t)]),
      latestRecord.total_cost_usd))

\* handleSessionEnd: only the last of the token records is used.
RecordLatestCost(p, tokenRecords, sessionId, turnNumber, t) ==
  IF Len(tokenRecords) > 0
  THEN RecordCost(p, tokenRecords[Len(tokenRecords)], sessionId, turnNumber, t)
  ELSE p

\* handleSessionEnd: the transcript is parsed only when the event names one
\* and the session has an open turn.
SessionTokenRecords(p, eventData, t) ==
  IF eventData.transcript_path # "" /\ IsSome(p.currentTurn)
  THEN parseTranscriptTokens(TranscriptFile(eventData.transcript_path, t))
  ELSE <<>>

\* handleSessionEnd, last steps: the Session record and the cleanup.
CloseSession(p, sessionId, turnNumber, eventData, t) ==
  IF Thrown(p) THEN p
  ELSE cleanupSession(
         updateSessionRecord(p, sessionId, turnNumber,
           IF IsSome(p.currentTurn) THEN Get(p.currentTurn).totalSessionCost ELSE 0,
           eventData.was_interrupted, t))

\* handleSessionEnd after the load.
EndLoadedSession(p, sessionId, eventData, t) ==
  CloseSession(
    RecordLatestCost(p, SessionTokenRecords(p, eventData, t), sessionId,
                     getCurrentTurnNumber(p), t),
    sessionId, getCurrentTurnNumber(p), eventData, t)

handleSessionEnd(p0, sessionId, eventData, t) ==
  EndLoadedSession(LoadIfAbsent(p0), sessionId, eventData, t)

\* ------------------------------------------------------------ event dispatcher
validEvents == {"UserPromptSubmit", "PreToolUse", "PostToolUse", "PreCompact", "Stop"}

\* Mutant of validateEventData: the kind is not checked against the list.
validateEventData_AnyKind(eventData) ==
  /\ eventData.is_object
  /\ eventData.hook_event_name # "" /\ eventData.name_is_string
  /\ (eventData.hook_event_name \in {"PreToolUse", "PostToolUse"} => eventData.tool_name # "")

\* validateEventData: "" stands for a missing (falsy) hook_event_name or
\* tool_name; is_object and name_is_string are the typeof tests.
validateEventData(eventData) ==
  /\ eventData.is_object
  /\ eventData.hook_event_name # "" /\ eventData.name_is_string
  /\ eventData.hook_event_name \in validEvents
  /\ (eventData.hook_event_name \in {"PreToolUse", "PostToolUse"} => eventData.tool_name # "")

\* The handler of a valid event.
Dispatch(p, eventData, t) ==
  LET name == eventData.hook_event_name
      sessionId == eventData.session_id
  IN IF name = "UserPromptSubmit" THEN handleTurnStart(p, sessionId, eventData, t)
     ELSE IF name = "PreToolUse" /\ eventData.tool_name # ""
          THEN handleToolStart(p, sessionId, eventData.tool_name, eventData, t)
     ELSE IF name = "PostToolUse" /\ eventData.tool_name # ""
          THEN handleToolEnd(p, sessionId, eventData.tool_name, eventData, t)
     ELSE IF name = "PreCompact" THEN handleCompaction(p, sessionId, eventData, t)
     ELSE IF name = "Stop" THEN handleSessionEnd(p, sessionId, eventData, t)
     ELSE p

\* processHookEvent: an invalid event is logged and dropped; an exception of
\* the handler is caught and logged (message and stack).
processHookEvent(p, eventData, t) ==
  IF ~validateEventData(eventData) THEN [p EXCEPT !.stderr = @ + 1]
  ELSE Caught(Dispatch(p, eventData, t), 2)

\* ------------------------------------------------------------- main program
MAX_INPUT_SIZE == 10 * 1024 * 1024

\* process.exit was called.
Exited(p) == IsSome(p.exit)

\* The error handlers of stdin, stdout and stderr and the uncaughtException
\* handler: when the environment raises its error at this stage, the process
\* exits at once, with 0 for EPIPE and 1 for any other code.
StreamError(p, env, stage) ==
  IF ~Exited(p) /\ env.error.at = stage
  THEN [p EXCEPT !.exit = Some(IF env.error.code = "EPIPE" THEN 0 ELSE 1)]
  ELSE p

\* Mutant of ReadChunks: input of exactly the maximum size is rejected.
RECURSIVE ReadChunks_AtLimit(_, _)
ReadChunks_AtLimit(chunks, inputSize) ==
  IF Len(chunks) = 0 THEN TRUE
  ELSE IF inputSize + Head(chunks) >= MAX_INPUT_SIZE THEN FALSE
  ELSE ReadChunks_AtLimit(Tail(chunks), inputSize + Head(chunks))

\* The stdin data handler over the chunks, from the size read so far: TRUE
\* when the end of the input is reached within the limit.
RECURSIVE ReadChunks(_, _)
ReadChunks(chunks, inputSize) ==
  IF Len(chunks) = 0 THEN TRUE
  ELSE IF inputSize + Head(chunks) > MAX_INPUT_SIZE THEN FALSE
  ELSE ReadChunks(Tail(chunks), inputSize + Head(chunks))

\* Reading stdin: a diagnostic and exit code 1 as soon as the limit is crossed.
OnData(p, chunks) ==
  IF Exited(p) \/ ReadChunks(chunks, 0) THEN p
  ELSE [p EXCEPT !.stderr = @ + 1, !.exit = Some(1)]

\* initialize: ensureDataDirectory throws when mkdir fails; then the headers.
initialize(p, env) ==
  IF Exited(p) THEN p
  ELSE IF env.mkdir # "ok"
       THEN [p EXCEPT !.thrown = Some([code |-> "", message |-> env.mkdir])]
  ELSE [p EXCEPT !.csv = ensureCSVHeaders(@), !.initialized = TRUE]

\* if (inputData.trim()) { JSON.parse; processHookEvent }
ProcessInput(p, stdin, t) ==
  IF Exited(p) \/ Thrown(p) \/ stdin.text = "blank" THEN p
  ELSE IF stdin.text = "malformed"
       THEN [p EXCEPT !.thrown = Some([code |-> "", message |-> "SyntaxError"])]
  ELSE processHookEvent(p, stdin.value, t)

\* The end of the stdin end handler: process.exit(0), or in the catch a
\* diagnostic, the EPIPE log and process.exit(1).
ExitAfterEnd(p) ==
  IF Exited(p) THEN p
  ELSE IF Thrown(p) THEN [p EXCEPT !.stderr = @ + 1, !.exit = Some(1)]
  ELSE [p EXCEPT !.exit = Some(0)]

\* One run of the program on the bytes of stdin in the environment env.
MainProgram(file, csv, stdin, env, t) ==
  ExitAfterEnd(
    ProcessInput(
      StreamError(
        initialize(
          StreamError(OnData([NewProcess(file, csv) EXCEPT !.io = env.io, !.save = env.save], stdin.chunks),
                      env, "reading"),
          env),
        env, "initialized"),
      stdin, t))

\* An environment without failures, and the stdin that carries one event.
Reliable == [io |-> <<>>, mkdir |-> "ok", error |-> [at |-> "never", code |-> ""], save |-> "ok"]
StdinOf(eventData) == [chunks |-> <<1>>, text |-> "json", value |-> eventData]

\* The stdin end handler: a new SimpleAnalytics, initialize, process the event.
Main(file, csv, eventData, t) ==
  MainProgram(file, csv, StdinOf(eventData), Reliable, t)


\* ------------------------------------------------------------------ inputs
Sessions == {"s1"}
Tools == {"Bash", "Read"}
\* A whitespace-only prompt and "fix".
Prompts == {<<" ">>, <<"f", "i", "x">>}
\* "fix the broken login validation and add a test"
ExamplePrompt ==
  <<"f","i","x"," ","t","h","e"," ","b","r","o","k","e","n"," ","l","o","g","i","n"," ","v","a","l","i","d","a","t","i","o","n"," ","a","n","d"," ","a","d","d"," ","a"," ","t","e","s","t">>
\* Prompts for the classifier: one or more per pattern group, mixed case, and
\* words that contain a keyword without a word boundary.
ClassifierPrompts ==
  {ExamplePrompt,
   <<"f","i","x"," ","t","h","e"," ","b","r","o","k","e","n"," ","l","o","g","i","n"," ","v","a","l","i","d","a","t","i","o","n">>,  \* fix the broken login validation
   <<"F","i","x"," ","t","h","e"," ","l","o","g","i","n"," ","t","e","s","t">>,  \* Fix the login test
   <<"a","d","d"," ","a"," ","b","u","t","t","o","n">>,  \* add a button
   <<"w","r","i","t","e"," ","a"," ","u","n","i","t"," ","t","e","s","t">>,  \* write a unit test
   <<"r","e","f","a","c","t","o","r"," ","t","h","e"," ","p","a","r","s","e","r">>,  \* refactor the parser
   <<"u","p","d","a","t","e"," ","t","h","e"," ","r","e","a","d","m","e">>,  \* update the readme
   <<"h","o","w"," ","d","o","e","s"," ","r","o","u","t","i","n","g"," ","w","o","r","k">>,  \* how does routing work
   <<"d","e","b","u","g"," ","t","h","e"," ","c","r","a","s","h">>,  \* debug the crash
   <<"r","e","v","i","e","w"," ","m","y"," ","c","h","a","n","g","e","s">>,  \* review my changes
   <<"i","n","s","t","a","l","l"," ","t","h","e"," ","l","i","n","t","e","r">>,  \* install the linter
   <<"r","e","b","a","s","e"," ","o","n","t","o"," ","m","a","i","n">>,  \* rebase onto main
   <<"h","e","l","l","o"," ","t","h","e","r","e">>,  \* hello there
   <<"p","r","e","f","i","x"," ","t","h","e"," ","a","d","d","r","e","s","s","e","s">>,  \* prefix the addresses
   <<>>,  \* the empty prompt
   <<" ", "\t">>,  \* whitespace only
   <<" ","f","i","x"," "," ">>}  \* fix, with whitespace around it

Event(name, sessionId, toolName) ==
  [is_object |-> TRUE, name_is_string |-> TRUE,
   hook_event_name |-> name, session_id |-> sessionId, tool_name |-> toolName,
   prompt |-> <<>>, tool_input |-> None, tool_output |-> None, success |-> TRUE,
   gitOk |-> TRUE, transcript_path |-> "", was_interrupted |-> FALSE,
   tokens_before |-> 0, tokens_after |-> 0]

\* ------------------------------------------------------------ specification
Init ==
  /\ stateFiles = [s \in Sessions |-> NoStateFile]
  /\ csvFiles = [k \in Ledgers |-> [exists |-> FALSE, lines |-> <<>>]]
  /\ now = 1
  /\ history = <<>>
  /\ running = <<>>
  /\ disk = <<>>

\* One invocation of the hook: the process reads the event, runs Main against
\* the files on disk and exits with code 0.
Invoke(eventData) ==
  /\ \E p \in {Main(stateFiles[eventData.session_id], csvFiles, eventData, now)} :
        /\ stateFiles' = [stateFiles EXCEPT ![eventData.session_id] = p.file]
        /\ csvFiles' = p.csv
        /\ history' = Append(history,
             [event |-> eventData, at |-> now, exit |-> 0, stderr |-> p.stderr,
              toolKey |-> p.toolKey, matchingKey |-> p.matchingKey,
              before |-> stateFiles[eventData.session_id], after |-> p.file,
              appended |-> [k \in Ledgers |-> Len(Rows(p.csv, k)) - Len(Rows(csvFiles, k))]])
  /\ now' = now + 1
  /\ UNCHANGED <<running, disk>>

PromptSubmitted ==
  /\ now <= MaxEvents
  /\ \E s \in Sessions, prompt \in Prompts :
        Invoke([Event("UserPromptSubmit", s, "") EXCEPT !.prompt = prompt])

ToolStarting ==
  /\ now <= MaxEvents
  /\ \E s \in Sessions, tool \in Tools : Invoke(Event("PreToolUse", s, tool))

ToolFinished ==
  /\ now <= MaxEvents
  /\ \E s \in Sessions, tool \in Tools : Invoke(Event("PostToolUse", s, tool))

ContextCompacted ==
  /\ now <= MaxEvents
  /\ \E s \in Sessions :
        Invoke([Event("PreCompact", s, "") EXCEPT !.tokens_before = 100, !.tokens_after = 40])

SessionStopped ==
  /\ now <= MaxEvents
  /\ \E s \in Sessions, path \in {""} \cup TranscriptPaths :
        Invoke([Event("Stop", s, "") EXCEPT !.transcript_path = path])

Next ==
  \/ PromptSubmitted
  \/ ToolStarting
  \/ ToolFinished
  \/ ContextCompacted
  \/ SessionStopped

Spec == Init /\ [][Next]_vars

\* The classifier applied by UserPromptSubmit to the prompts of ClassifierPrompts.
ClassifyPrompt ==
  /\ now <= MaxClassified
  /\ \E s \in Sessions, prompt \in ClassifierPrompts :
        Invoke([Event("UserPromptSubmit", s, "") EXCEPT !.prompt = prompt])

SpecClassify == Init /\ [][ClassifyPrompt]_vars

\* ---------------------------------------------- the program and its input
\* The files after the invocations of a sequence of events, one after the
\* other from time t on, in the reliable environment.
RECURSIVE FilesAfter(_, _, _)
FilesAfter(files, events, t) ==
  IF Len(events) = 0 THEN files
  ELSE FilesAfter(
         [state |-> [files.state EXCEPT ![Head(events).session_id] =
                        Main(@, files.csv, Head(events), t).file],
          csv |-> Main(files.state[Head(events).session_id], files.csv, Head(events), t).csv],
         Tail(events), t + 1)

\* The invocations that came before the ones observed: none, an open turn,
\* an open turn with a tool in flight.
Earlier ==
  {<<>>,
   <<[Event("UserPromptSubmit", "s1", "") EXCEPT !.prompt = <<"f", "i", "x">>]>>,
   <<[Event("UserPromptSubmit", "s1", "") EXCEPT !.prompt = <<"f", "i", "x">>],
     Event("PreToolUse", "s1", "Bash")>>}

InitAfterEarlier ==
  \E events \in Earlier :
     \E files \in {FilesAfter([state |-> [s \in Sessions |-> NoStateFile],
                                csv |-> [k \in Ledgers |-> [exists |-> FALSE, lines |-> <<>>]]],
                               events, 1)} :
        /\ stateFiles = files.state
        /\ csvFiles = files.csv
        /\ now = Len(events) + 1
        /\ history = <<>>
        /\ running = <<>>
        /\ disk = <<>>

\* One run of the program on stdin in the environment env.
Run(stdin, env) ==
  /\ \E p \in {MainProgram(stateFiles[stdin.value.session_id], csvFiles, stdin, env, now)} :
        /\ stateFiles' = [stateFiles EXCEPT ![stdin.value.session_id] = p.file]
        /\ csvFiles' = p.csv
        /\ history' = Append(history,
             [event |-> stdin.value, at |-> now, exit |-> Get(p.exit), stderr |-> p.stderr,
              toolKey |-> p.toolKey, matchingKey |-> p.matchingKey,
              before |-> stateFiles[stdin.value.session_id], after |-> p.file,
              appended |-> [k \in Ledgers |-> Len(Rows(p.csv, k)) - Len(Rows(csvFiles, k))],
              stdin |-> stdin, env |-> env, calls |-> p.calls, initialized |-> p.initialized,
              csvBefore |-> csvFiles, csvAfter |-> p.csv])
  /\ now' = now + 1
  /\ UNCHANGED <<running, disk>>

\* The events of the five kinds, one each.
GoodEvents ==
  {[Event("UserPromptSubmit", "s1", "") EXCEPT !.prompt = <<"f", "i", "x">>],
   Event("PreToolUse", "s1", "Bash"),
   Event("PostToolUse", "s1", "Bash"),
   [Event("PreCompact", "s1", "") EXCEPT !.tokens_before = 100, !.tokens_after = 40],
   [Event("Stop", "s1", "") EXCEPT !.transcript_path = "t.jsonl"]}

\* Events that validateEventData rejects: no kind, a kind that is a number,
\* an unknown kind, tool events without a tool name, JSON that is no object.
BadEvents ==
  {Event("", "s1", "Bash"),
   [Event("5", "s1", "Bash") EXCEPT !.name_is_string = FALSE],
   Event("SessionStart", "s1", "Bash"),
   Event("stop", "s1", ""),
   Event("PreToolUse", "s1", ""),
   Event("PostToolUse", "s1", ""),
   [Event("", "s1", "") EXCEPT !.is_object = FALSE]}

\* Input without an event: nothing, only whitespace, text that is not JSON.
NoEvent == Event("", "s1", "")
OtherStdin ==
  {[chunks |-> <<>>, text |-> "blank", value |-> NoEvent],
   [chunks |-> <<2>>, text |-> "blank", value |-> NoEvent],
   [chunks |-> <<7>>, text |-> "malformed", value |-> NoEvent]}

\* Chunk sizes around the limit.
ChunkCases ==
  {<<MAX_INPUT_SIZE>>, <<MAX_INPUT_SIZE + 1>>, <<MAX_INPUT_SIZE - 1, 1>>,
   <<MAX_INPUT_SIZE - 1, 1, 1>>, <<MAX_INPUT_SIZE, 1>>, <<1, MAX_INPUT_SIZE>>}

EventArrives ==
  /\ Len(history) < MaxRuns
  /\ \E e \in GoodEvents \cup BadEvents : Run(StdinOf(e), Reliable)

OtherInputArrives ==
  /\ Len(history) < MaxRuns
  /\ \E stdin \in OtherStdin : Run(stdin, Reliable)

LargeInputArrives ==
  /\ Len(history) < MaxRuns
  /\ \E chunks \in ChunkCases, text \in {"json", "malformed"}, e \in GoodEvents :
        Run([chunks |-> chunks, text |-> text, value |-> e], Reliable)

\* A stream error or an uncaught exception while stdin is read or after
\* initialization.
StreamBreaks ==
  /\ Len(history) < MaxRuns
  /\ \E at \in {"reading", "initialized"}, code \in {"EPIPE", "ECONNRESET"}, e \in GoodEvents :
        Run(StdinOf(e), [Reliable EXCEPT !.error = [at |-> at, code |-> code]])

\* mkdir fails in ensureDataDirectory.
InitializeFails ==
  /\ Len(history) < MaxRuns
  /\ \E code \in {"EACCES", "EPIPE"}, e \in GoodEvents :
        Run(StdinOf(e), [Reliable EXCEPT !.mkdir = code])

\* The first ledger append of the handler fails: at once, or after all its
\* retries.
HandlerAppendFails ==
  /\ Len(history) < MaxRuns
  /\ \E io \in {<<"EACCES">>, <<"EPIPE">>, <<"EBUSY", "EBUSY", "EBUSY">>}, e \in GoodEvents :
        Run(StdinOf(e), [Reliable EXCEPT !.io = io])

NextMain ==
  \/ EventArrives
  \/ OtherInputArrives
  \/ LargeInputArrives
  \/ StreamBreaks
  \/ InitializeFails
  \/ HandlerAppendFails

SpecMain == InitAfterEarlier /\ [][NextMain]_vars

\* ------------------------------------------------- appends that may fail
AppendOutcomes == {"ok", "EBUSY", "EACCES"}

\* The outcomes of the first fs.appendFile calls of a run: every sequence of
\* up to MAX_RETRIES outcomes, and some that reach a second appendCSV call.
IoPlans ==
  UNION {[1..n -> AppendOutcomes] : n \in 0..MAX_RETRIES}
    \cup {<<"EBUSY", "EBUSY", "EBUSY", "ok">>,
          <<"EBUSY", "EBUSY", "ok", "EBUSY", "EACCES">>,
          <<"EBUSY", "EBUSY", "ok", "EBUSY", "EBUSY", "ok">>,
          <<"EBUSY", "ok", "EBUSY", "EBUSY", "EBUSY">>}

AppendsMayFail ==
  /\ Len(history) < MaxFaultyRuns
  /\ \E e \in GoodEvents, io \in IoPlans : Run(StdinOf(e), [Reliable EXCEPT !.io = io])

SpecAppend == InitAfterEarlier /\ [][AppendsMayFail]_vars


\* =================================================================== claims
\* What the observer recorded.
Kind(h) == h.event.hook_event_name
EventsOf(sessionId) == SelectSeq(history, LAMBDA h : h.event.session_id = sessionId)
\* The positions in history of the events of one kind of a session.
Positions(sessionId, kind) ==
  {i \in 1..Len(history) : history[i].event.session_id = sessionId /\ Kind(history[i]) = kind}
\* The k-th smallest element of a finite set of numbers.
Nth(S, k) == CHOOSE x \in S : Cardinality({y \in S : y <= x}) = k
\* The entries of a persisted in-flight map that carry a tool name.
EntriesOf(file, toolName) ==
  IF file.status = "ok"
  THEN {i \in 1..Len(file.toolStartData) : file.toolStartData[i].val.toolName = toolName}
  ELSE {}

\* C1: with one invocation per event, the k-th Turn record of a session has
\* turn number k (1, 2, 3, ... in append order: no duplicate, no gap), and a
\* session with n UserPromptSubmit events has n - 1 Turn records.
C1_TurnNumbersSequential ==
  \A s \in Sessions :
     \A rows \in {RowsOf(csvFiles, "turns", s)} :
     \A prompts \in {Cardinality(Positions(s, "UserPromptSubmit"))} :
        /\ \A k \in 1..Len(rows) : rows[k].turn_number = k
        /\ Len(rows) = IF prompts = 0 THEN 0 ELSE prompts - 1

\* C1 witness: three turns were opened, with a Stop and a tool event among the
\* events, and Turn records 1 and 2 are in the ledger.
C1_Witness ==
  /\ Len(RowsOf(csvFiles, "turns", "s1")) = 2
  /\ Positions("s1", "Stop") # {}
  /\ Positions("s1", "PreToolUse") # {}

\* C2: the Turn record of turn n carries the number of PreToolUse events
\* processed between the UserPromptSubmit that opened n and the one that
\* opened n + 1, whatever other events arrived in between.
C2_ToolCountPerTurn ==
  \A s \in Sessions :
     \A rows \in {RowsOf(csvFiles, "turns", s)} :
     \A P \in {Positions(s, "UserPromptSubmit")} :
     \A T \in {Positions(s, "PreToolUse")} :
        \A n \in 1..Len(rows) :
           /\ n + 1 <= Cardinality(P)
           /\ rows[n].tool_count =
                Cardinality({i \in T : Nth(P, n) < i /\ i < Nth(P, n + 1)})

\* C2 witness: UserPromptSubmit, PreToolUse(Bash), PostToolUse(Bash),
\* UserPromptSubmit left exactly one Turn record, for turn 1, with tool count 1.
C2_Witness ==
  /\ Len(history) = 4
  /\ Kind(history[1]) = "UserPromptSubmit"
  /\ Kind(history[2]) = "PreToolUse" /\ history[2].event.tool_name = "Bash"
  /\ Kind(history[3]) = "PostToolUse" /\ history[3].event.tool_name = "Bash"
  /\ Kind(history[4]) = "UserPromptSubmit"
  /\ Len(Rows(csvFiles, "turns")) = 1
  /\ Rows(csvFiles, "turns")[1].turn_number = 1
  /\ Rows(csvFiles, "turns")[1].tool_count = 1

\* C3: a PostToolUse(t) for a session whose persisted in-flight map has no
\* entry named t (or that has no state file) appends no row to any ledger,
\* exits normally after one warning and leaves the state file as it was.
C3_UnmatchedToolEndDropped ==
  \A i \in 1..Len(history) :
     LET h == history[i]
     IN (Kind(h) = "PostToolUse" /\ EntriesOf(h.before, h.event.tool_name) = {})
        => /\ \A k \in Ledgers : h.appended[k] = 0
           /\ h.exit = 0
           /\ h.stderr = 1
           /\ h.after = h.before

\* C3 witness: a PostToolUse(Read) was dropped while an entry of Bash was in
\* flight, and one was dropped for a session without a state file.
C3_Witness ==
  /\ \E i \in 1..Len(history) :
        /\ Kind(history[i]) = "PostToolUse" /\ history[i].event.tool_name = "Read"
        /\ EntriesOf(history[i].before, "Read") = {}
        /\ EntriesOf(history[i].before, "Bash") # {}
  /\ \E i \in 1..Len(history) :
        Kind(history[i]) = "PostToolUse" /\ history[i].before.status = "absent"


\* The events before position i of the same session and tool as history[i].
SameToolBefore(i, kind) ==
  {j \in 1..(i - 1) : /\ Kind(history[j]) = kind
                      /\ history[j].event.session_id = history[i].event.session_id
                      /\ history[j].event.tool_name = history[i].event.tool_name}

\* C4: for any session, also one without a state file, a PreToolUse(t)
\* followed in a later invocation by a PostToolUse(t) gives exactly one Tool
\* Invocation row for that call: a PostToolUse(t) that has more PreToolUse(t)
\* before it than Tool rows written for t appends one row.
C4_StartThenEndGivesOneRow ==
  \A i \in 1..Len(history) :
     Kind(history[i]) = "PostToolUse"
     => \A starts \in {Cardinality(SameToolBefore(i, "PreToolUse"))} :
        \A done \in {Cardinality({j \in SameToolBefore(i, "PostToolUse") :
                                    history[j].appended["tools"] = 1})} :
           starts > done => history[i].appended["tools"] = 1

\* The position in a persisted in-flight map of the entry named toolName
\* with the highest counter.
LastAllocated(file, toolName) ==
  CHOOSE i \in EntriesOf(file, toolName) :
     \A j \in EntriesOf(file, toolName) :
        file.toolStartData[j].key[3] <= file.toolStartData[i].key[3]

\* C5: a PostToolUse(t) that finds entries named t in the persisted
\* in-flight map matches the one with the highest counter: its key is the
\* one removed, every other entry (of t or of another tool, older or newer)
\* stays in place, and the Tool row carries that entry's start time.
C5_MostRecentStartMatched ==
  \A i \in 1..Len(history) :
     \A h \in {history[i]} :
        (Kind(h) = "PostToolUse" /\ EntriesOf(h.before, h.event.tool_name) # {})
        => \A e \in {h.before.toolStartData[LastAllocated(h.before, h.event.tool_name)]} :
              /\ h.matchingKey = Some(e.key)
              /\ h.after.status = "ok"
              /\ h.after.toolStartData = ObjDelete(h.before.toolStartData, e.key)
              /\ h.appended["tools"] = 1
              /\ \E r \in 1..Len(Rows(csvFiles, "tools")) :
                    /\ Rows(csvFiles, "tools")[r].completed_at = h.at
                    /\ Rows(csvFiles, "tools")[r].started_at = e.val.startTime
                    /\ Rows(csvFiles, "tools")[r].tool_name = h.event.tool_name

\* C5 witness: two nested starts of Bash (keys 1 and 2) were finished, the
\* first finish matched key 2 and the second key 1.
C5_Witness ==
  \E i, j \in 1..Len(history) :
     /\ i < j
     /\ history[i].matchingKey = Some(<<"s1", "Bash", 2>>)
     /\ Len(history[i].before.toolStartData) = 2
     /\ history[j].matchingKey = Some(<<"s1", "Bash", 1>>)

\* C6: no key is allocated twice in a session: the counter part of the key
\* of a later PreToolUse is larger than that of every earlier one.
C6_KeysNeverReused ==
  \A i, j \in 1..Len(history) :
     (/\ i < j
      /\ Kind(history[i]) = "PreToolUse" /\ Kind(history[j]) = "PreToolUse"
      /\ history[i].event.session_id = history[j].event.session_id)
     => /\ Get(history[i].toolKey) # Get(history[j].toolKey)
        /\ Get(history[i].toolKey)[3] < Get(history[j].toolKey)[3]

\* C7: a PreCompact for a session whose persisted open turn is n appends one
\* Compaction record tagged with turn number n.
C7_CompactionTaggedWithOpenTurn ==
  \A i \in 1..Len(history) :
     \A h \in {history[i]} :
        (Kind(h) = "PreCompact" /\ h.before.status = "ok")
        => /\ h.appended["compactions"] = 1
           /\ \E r \in 1..Len(Rows(csvFiles, "compactions")) :
                 /\ Rows(csvFiles, "compactions")[r].timestamp = h.at
                 /\ Rows(csvFiles, "compactions")[r].session_id = h.event.session_id
                 /\ Rows(csvFiles, "compactions")[r].turn_number = h.before.currentTurn.number


\* The Prompt Classification rows written at time t.
PromptRowsAt(t) == SelectSeq(Rows(csvFiles, "prompts"), LAMBDA r : r.timestamp = t)

\* C8 as stated: the classifier maps "fix the broken login validation and
\* add a test" to category bug_fix, subcategory with_tests.
C8_ExampleIsBugFix ==
  \A i \in 1..Len(history) :
     (Kind(history[i]) = "UserPromptSubmit" /\ history[i].event.prompt = ExamplePrompt)
     => \A rows \in {PromptRowsAt(history[i].at)} :
           /\ Len(rows) = 1
           /\ rows[1].category = "bug_fix"
           /\ rows[1].subcategory = "with_tests"

\* C8 amended: the classifier maps "fix the broken login validation and add
\* a test" to category feature_development, subcategory with_tests (the
\* feature-development group is tested first and matches the word "add").
C8_ExampleIsFeatureDevelopment ==
  \A i \in 1..Len(history) :
     (Kind(history[i]) = "UserPromptSubmit" /\ history[i].event.prompt = ExamplePrompt)
     => \A rows \in {PromptRowsAt(history[i].at)} :
           /\ Len(rows) = 1
           /\ rows[1].category = "feature_development"
           /\ rows[1].subcategory = "with_tests"
           /\ rows[1].prompt_length = Len(ExamplePrompt)

\* C8 witness: the example prompt was submitted and classified.
C8_Witness ==
  \E i \in 1..Len(history) :
     /\ history[i].event.prompt = ExamplePrompt
     /\ history[i].appended["prompts"] = 1

\* The token records of the transcript a Stop event names, as the file is
\* at the time of the event.
TokenRecordsAt(h) == parseTranscriptTokens(TranscriptFile(h.event.transcript_path, h.at))

\* C9: a Stop whose transcript's last usage entry costs c adds c to the
\* turn-scoped cost and to the cumulative session cost of the persisted state.
C9_StopAddsCostToTurnAndSession ==
  \A i \in 1..Len(history) :
     \A h \in {history[i]} :
        (Kind(h) = "Stop" /\ h.event.transcript_path # "" /\ h.before.status = "ok")
        => \A recs \in {TokenRecordsAt(h)} :
              Len(recs) > 0
              => \A c \in {recs[Len(recs)].total_cost_usd} :
                    /\ h.after.currentTurn.turnCost = h.before.currentTurn.turnCost + c
                    /\ h.after.currentTurn.totalSessionCost =
                         h.before.currentTurn.totalSessionCost + c

\* C10: every Stop that names a transcript with at least one usage entry
\* appends exactly one Cost Record, built from the last usage entry, also
\* when the session has no persisted state.
C10_StopAppendsOneCostRecord ==
  \A i \in 1..Len(history) :
     \A h \in {history[i]} :
        (Kind(h) = "Stop" /\ h.event.transcript_path # "")
        => \A recs \in {TokenRecordsAt(h)} :
              Len(recs) > 0
              => /\ h.appended["costs"] = 1
                 /\ \A n \in {Cardinality({j \in 1..i : history[j].appended["costs"] = 1})} :
                       /\ Rows(csvFiles, "costs")[n].message_id = recs[Len(recs)].message_id
                       /\ Rows(csvFiles, "costs")[n].total_cost_usd = recs[Len(recs)].total_cost_usd

\* The sum of total_cost_usd over the first n rows.
RECURSIVE SumCost(_, _)
SumCost(rows, n) == IF n = 0 THEN 0 ELSE rows[n].total_cost_usd + SumCost(rows, n - 1)

\* The number of rows of ledger k appended by the first n invocations.
AppendedUpTo(k, n) ==
  Cardinality({<<j, c>> \in (1..n) \X (1..2) : c <= history[j].appended[k]})

\* The Session rows written at time t.
SessionRowsAt(t) == SelectSeq(Rows(csvFiles, "sessions"), LAMBDA r : r.ended_at = t)

\* C11: a Stop without a transcript path appends one Session record whose
\* total cost is the cumulative cost persisted before it, which is the sum of
\* the Cost Records written by the earlier Stop events of the session (in
\* any turn), and it leaves the state file as it was.
C11_StopWithoutTranscriptReportsSessionCost ==
  \A i \in 1..Len(history) :
     \A h \in {history[i]} :
        (Kind(h) = "Stop" /\ h.event.transcript_path = "")
        => \A rows \in {SessionRowsAt(h.at)} :
              /\ h.appended["sessions"] = 1
              /\ Len(rows) = 1
              /\ rows[1].total_cost_usd =
                    SumCost(Rows(csvFiles, "costs"), AppendedUpTo("costs", i - 1))
              /\ rows[1].total_cost_usd =
                    IF h.before.status = "ok" THEN h.before.currentTurn.totalSessionCost ELSE 0
              /\ h.after = h.before

\* C11 witness: a cost was accumulated by a Stop in turn 1, and a Stop
\* without a transcript path in turn 2 reported it.
C11_Witness ==
  \E i \in 1..Len(history) :
     /\ Kind(history[i]) = "Stop" /\ history[i].event.transcript_path = ""
     /\ history[i].before.status = "ok"
     /\ history[i].before.currentTurn.number = 2
     /\ history[i].before.currentTurn.turnCost = 0
     /\ Len(SessionRowsAt(history[i].at)) = 1
     /\ SessionRowsAt(history[i].at)[1].total_cost_usd > 0

\* C12: once a UserPromptSubmit or a Stop has been processed for a session
\* whose open turn is n, the turns ledger holds a Turn record for turn n; no
\* other event kind writes a Turn record.
C12_TurnFinalizedByPromptOrStop ==
  \A i \in 1..Len(history) :
     \A h \in {history[i]} :
        /\ (Kind(h) \in {"UserPromptSubmit", "Stop"} /\ h.before.status = "ok")
           => \E r \in 1..AppendedUpTo("turns", i) :
                 /\ Rows(csvFiles, "turns")[r].session_id = h.event.session_id
                 /\ Rows(csvFiles, "turns")[r].turn_number = h.before.currentTurn.number
        /\ Kind(h) \in {"PreToolUse", "PostToolUse", "PreCompact"} => h.appended["turns"] = 0

\* C13: a Stop keeps the persisted state: the state file is still there with
\* the same turn number, start time, tool count, in-flight map and key
\* counter; a later UserPromptSubmit at turn n writes Turn record n and opens
\* n + 1, and a later PreToolUse adds its entry under the next key.
C13_StopIsNotTerminal ==
  \A i \in 1..Len(history) :
     \A h \in {history[i]} :
        /\ Kind(h) = "Stop"
           => /\ h.after.status = h.before.status
              /\ h.before.status = "ok"
                 => /\ h.after.currentTurn.number = h.before.currentTurn.number
                    /\ h.after.currentTurn.startTime = h.before.currentTurn.startTime
                    /\ h.after.currentTurn.toolCount = h.before.currentTurn.toolCount
                    /\ h.after.toolStartData = h.before.toolStartData
                    /\ h.after.toolCounter = h.before.toolCounter
        /\ (Kind(h) = "UserPromptSubmit" /\ h.before.status = "ok")
           => /\ h.after.status = "ok"
              /\ h.after.currentTurn.number = h.before.currentTurn.number + 1
              /\ h.appended["turns"] = 1
              /\ Rows(csvFiles, "turns")[AppendedUpTo("turns", i)].turn_number =
                    h.before.currentTurn.number
        /\ (Kind(h) = "PreToolUse" /\ h.before.status = "ok")
           => /\ h.after.status = "ok"
              /\ h.after.toolCounter = h.before.toolCounter + 1
              /\ Len(h.after.toolStartData) = Len(h.before.toolStartData) + 1
        /\ h.exit = 0

\* C13 witness: with a tool in flight in turn 1, two Stop events were
\* followed by a UserPromptSubmit that opened turn 2 with the entry and the
\* counter still in the state file.
C13_Witness ==
  \E i \in 1..Len(history) :
     /\ i > 2
     /\ Kind(history[i - 2]) = "Stop" /\ Kind(history[i - 1]) = "Stop"
     /\ Kind(history[i]) = "UserPromptSubmit"
     /\ history[i].after.status = "ok"
     /\ history[i].after.currentTurn.number = 2
     /\ Len(history[i].after.toolStartData) = 1
     /\ history[i].after.toolCounter = 1

\* C14 as stated: every UserPromptSubmit, whatever its prompt (also an empty
\* or whitespace-only one), appends exactly one Prompt Classification record.
C14_EveryPromptRecorded ==
  \A i \in 1..Len(history) :
     Kind(history[i]) = "UserPromptSubmit"
     => /\ history[i].appended["prompts"] = 1
        /\ Len(PromptRowsAt(history[i].at)) = 1

\* C14 amended: a UserPromptSubmit whose prompt has a character that is not
\* whitespace appends exactly one Prompt Classification record, with the
\* number of the turn just opened, the category and subcategory of the text,
\* the length of the trimmed text and no field for the text; an empty or
\* whitespace-only prompt appends none (the turn is opened all the same).
C14_NonBlankPromptRecorded ==
  \A i \in 1..Len(history) :
     \A h \in {history[i]} :
        Kind(h) = "UserPromptSubmit"
        => \A rows \in {PromptRowsAt(h.at)} :
              /\ h.after.status = "ok"
              /\ IF \E k \in 1..Len(h.event.prompt) : h.event.prompt[k] \notin WhiteSpace
                 THEN /\ h.appended["prompts"] = 1
                      /\ Len(rows) = 1
                      /\ rows[1].turn_number = h.after.currentTurn.number
                      /\ rows[1].category = categorizePrompt(h.event.prompt).category
                      /\ rows[1].subcategory = categorizePrompt(h.event.prompt).subcategory
                      /\ rows[1].prompt_length =
                            Cardinality({k \in 1..Len(h.event.prompt) :
                               /\ \E a \in 1..k : h.event.prompt[a] \notin WhiteSpace
                               /\ \E b \in k..Len(h.event.prompt) : h.event.prompt[b] \notin WhiteSpace})
                      /\ DOMAIN rows[1] = {"session_id", "turn_number", "category",
                                           "subcategory", "prompt_length", "timestamp"}
                 ELSE h.appended["prompts"] = 0 /\ Len(rows) = 0

\* C14 witness: a whitespace-only prompt opened turn 1 without a record, and
\* " fix  " opened turn 2 with a record of length 3 in category bug_fix.
C14_Witness ==
  /\ Len(history) = 2
  /\ history[1].event.prompt = <<" ", "\t">>
  /\ history[1].appended["prompts"] = 0
  /\ history[2].event.prompt = <<" ","f","i","x"," "," ">>
  /\ Len(Rows(csvFiles, "prompts")) = 1
  /\ Rows(csvFiles, "prompts")[1].turn_number = 2
  /\ Rows(csvFiles, "prompts")[1].prompt_length = 3
  /\ Rows(csvFiles, "prompts")[1].category = "bug_fix"

\* ------------------------------------------------ processes side by side
\* The host starts up to MaxProcs processes without waiting for one to exit.
\* A process is followed through the awaits of initialize: the fileExists
\* answers of its header tasks arrive, then the tasks write; after that its
\* event is processed and it exits.
Procs == 1..MaxProcs

InitConcurrent ==
  \E events \in Earlier :
     \E files \in {FilesAfter([state |-> [s \in Sessions |-> NoStateFile],
                                csv |-> [k \in Ledgers |-> [exists |-> FALSE, lines |-> <<>>]]],
                               events, 1)} :
        /\ stateFiles = files.state
        /\ csvFiles = files.csv
        /\ now = Len(events) + 1
        /\ history = <<>>
        /\ running = [i \in Procs |-> [pc |-> "idle"]]
        /\ disk = <<>>

\* ensureCSVHeaders up to the awaits on fileExists.
ChecksFiles ==
  /\ \E i \in Procs, e \in GoodEvents :
        /\ running[i].pc = "idle"
        /\ running' = [running EXCEPT ![i] =
                         [pc |-> "checked", event |-> e, exists |-> fileExists(csvFiles)]]
  /\ UNCHANGED <<stateFiles, csvFiles, now, history, disk>>

\* ensureCSVHeaders after the awaits on fileExists.
WritesHeaders ==
  /\ \E i \in Procs :
        /\ running[i].pc = "checked"
        /\ csvFiles' = WriteHeaders(csvFiles, running[i].exists)
        /\ running' = [running EXCEPT ![i].pc = "initialized"]
  /\ UNCHANGED <<stateFiles, now, history, disk>>

\* The rest of the stdin end handler: the event is processed and the process
\* exits.
ProcessesEvent ==
  /\ \E i \in Procs :
        /\ running[i].pc = "initialized"
        /\ \E p \in {ExitAfterEnd(ProcessInput(
                        [NewProcess(stateFiles[running[i].event.session_id], csvFiles)
                           EXCEPT !.initialized = TRUE],
                        StdinOf(running[i].event), now))} :
              /\ stateFiles' = [stateFiles EXCEPT ![running[i].event.session_id] = p.file]
              /\ csvFiles' = p.csv
        /\ running' = [running EXCEPT ![i].pc = "exited"]
  /\ now' = now + 1
  /\ UNCHANGED <<history, disk>>

NextConcurrent ==
  \/ ChecksFiles
  \/ WritesHeaders
  \/ ProcessesEvent

SpecConcurrent == InitConcurrent /\ [][NextConcurrent]_vars

\* C20: every ledger file that exists starts with its header line, and no
\* other line of it is a header line - after any number of invocations, those
\* that initialize side by side included.
C20_HeaderOnceAndFirst ==
  \A k \in Ledgers :
    csvFiles[k].exists =>
      /\ Len(csvFiles[k].lines) >= 1
      /\ csvFiles[k].lines[1] = CSV_HEADERS[k]
      /\ \A j \in 2..Len(csvFiles[k].lines) : ~IsHeader(csvFiles[k].lines[j])

\* ---------------------------------------------------- the cost calculator
\* Token counts whose sums lie around the threshold (the costs stay below
\* 2^31 units), and the models of a transcript entry: the two of
\* CONFIG.PRICING and one it does not know.
InputCounts == {0, 1, 50000}
CacheWriteCounts == {0, 1, 50000}
CacheReadCounts == {0, 100000, 150000, 200000}
OutputCounts == {0, 5000}
Models == {SONNET, HAIKU, "unknown"}

InitCost ==
  /\ stateFiles = [s \in Sessions |-> NoStateFile]
  /\ csvFiles = [k \in Ledgers |-> [exists |-> FALSE, lines |-> <<>>]]
  /\ now = 1
  /\ history = <<>>
  /\ running = <<>>
  /\ disk = <<>>

\* calculateTokenCost is applied to one usage tuple.
PricesUsage ==
  /\ Len(history) < MaxPriced
  /\ \E i \in InputCounts, cw \in CacheWriteCounts, cr \in CacheReadCounts, o \in OutputCounts,
          m \in Models :
       history' = Append(history, [usage |-> Usage(i, o, cw, cr), model |-> m,
                                   cost |-> calculateTokenCost(Usage(i, o, cw, cr), m)])
  /\ UNCHANGED <<stateFiles, csvFiles, now, running, disk>>

SpecCost == InitCost /\ [][PricesUsage]_vars

\* All the input tokens of a usage tuple.
TotalInput(usage) ==
  usage.input_tokens + usage.cache_creation_input_tokens + usage.cache_read_input_tokens

\* The four costs of entry h are the token counts times the rates of tier.
PricedWith(h, rates) ==
  /\ h.cost.input_cost_usd = h.usage.input_tokens * rates.input
  /\ h.cost.output_cost_usd = h.usage.output_tokens * rates.output
  /\ h.cost.cache_write_cost_usd = h.usage.cache_creation_input_tokens * rates.cacheWrite
  /\ h.cost.cache_read_cost_usd = h.usage.cache_read_input_tokens * rates.cacheRead

\* The tier of entry h is the standard one up to 200,000 input tokens and
\* the extended one above, whatever the output tokens.
TierByInput(h) ==
  /\ PricedWith(h, IF TotalInput(h.usage) <= 200000
                   THEN ModelPricing(h.model).standard ELSE ModelPricing(h.model).extended)
  /\ \A o \in OutputCounts :
       calculateTokenCost([h.usage EXCEPT !.output_tokens = o], h.model).input_cost_usd
         = h.cost.input_cost_usd

\* The cost of a usage tuple under the rates of one tier.
CostAt(usage, rates) ==
  usage.input_tokens * rates.input + usage.output_tokens * rates.output
    + usage.cache_creation_input_tokens * rates.cacheWrite
    + usage.cache_read_input_tokens * rates.cacheRead

\* C24 as stated: the tier follows the input tokens, and the extended-tier
\* cost of every tuple is strictly greater than its standard-tier cost.
C24_ExtendedAlwaysCostsMore ==
  \A n \in DOMAIN history :
    /\ TierByInput(history[n])
    /\ CostAt(history[n].usage, ModelPricing(history[n].model).extended)
         > CostAt(history[n].usage, ModelPricing(history[n].model).standard)

\* C24, amended: the tier follows the input tokens; the extended-tier cost of
\* a tuple with at least one token is strictly greater than its standard-tier
\* cost, and both are 0 for the tuple without tokens.
C24_ExtendedCostsMorePerToken ==
  \A n \in DOMAIN history :
    /\ TierByInput(history[n])
    /\ IF TotalInput(history[n].usage) + history[n].usage.output_tokens > 0
       THEN CostAt(history[n].usage, ModelPricing(history[n].model).extended)
              > CostAt(history[n].usage, ModelPricing(history[n].model).standard)
       ELSE /\ CostAt(history[n].usage, ModelPricing(history[n].model).extended) = 0
            /\ CostAt(history[n].usage, ModelPricing(history[n].model).standard) = 0

\* A tuple of exactly 200,000 input tokens, spread over the three input
\* categories, that has output tokens on top is priced at the standard rates.
C24_Witness ==
  /\ Len(history) = 1
  /\ history[1].model = HAIKU
  /\ history[1].usage = Usage(50000, 5000, 50000, 100000)
  /\ history[1].cost.total_cost_usd = CostAt(history[1].usage, PRICING[HAIKU].standard)

\* ------------------------------------------- the classifier, group by group
\* Short prompts that two groups match, one per pair of neighbouring groups,
\* a keyword in two letter cases, and prompts that no group matches:
\*   add fix, fix test, Fix, test spec, improve docs, explain config, find why,
\*   trace check, check setup, deploy git, git, GIT, hello, prefix
OrderPrompts ==
  {<<"a","d","d"," ","f","i","x">>,
   <<"f","i","x"," ","t","e","s","t">>,
   <<"F","i","x">>,
   <<"t","e","s","t"," ","s","p","e","c">>,
   <<"i","m","p","r","o","v","e"," ","d","o","c","s">>,
   <<"e","x","p","l","a","i","n"," ","c","o","n","f","i","g">>,
   <<"f","i","n","d"," ","w","h","y">>,
   <<"t","r","a","c","e"," ","c","h","e","c","k">>,
   <<"c","h","e","c","k"," ","s","e","t","u","p">>,
   <<"d","e","p","l","o","y"," ","g","i","t">>,
   <<"g","i","t">>,
   <<"G","I","T">>,
   <<"h","e","l","l","o">>,
   <<"p","r","e","f","i","x">>}

\* UserPromptSubmit with a prompt of OrderPrompts.
ClassifiesText ==
  /\ now <= MaxOrdered
  /\ \E s \in Sessions, prompt \in OrderPrompts :
        Invoke([Event("UserPromptSubmit", s, "") EXCEPT !.prompt = prompt])

SpecOrder == Init /\ [][ClassifiesText]_vars

\* The pattern groups in the order C25 gives, each with its category.
GroupOrder ==
  << <<PROMPT_PATTERNS.featureDev, "feature_development">>,
     <<PROMPT_PATTERNS.bugFix, "bug_fix">>,
     <<PROMPT_PATTERNS.testing, "testing">>,
     <<PROMPT_PATTERNS.refactoring, "refactoring">>,
     <<PROMPT_PATTERNS.documentation, "documentation">>,
     <<PROMPT_PATTERNS.codeUnderstanding, "code_understanding">>,
     <<PROMPT_PATTERNS.debugging, "debugging">>,
     <<PROMPT_PATTERNS.codeReview, "code_review">>,
     <<PROMPT_PATTERNS.configuration, "configuration">>,
     <<PROMPT_PATTERNS.versionControl, "version_control">> >>

\* The groups of GroupOrder that match text, and the category of the first.
MatchingGroups(text) == {g \in 1..Len(GroupOrder) : RegexTest(GroupOrder[g][1], text)}
CategoryByOrder(text) ==
  IF MatchingGroups(text) = {} THEN "general"
  ELSE GroupOrder[CHOOSE g \in MatchingGroups(text) : \A k \in MatchingGroups(text) : g <= k][2]

\* text with every letter of alphabet from replaced by the letter of to.
InCase(text, from, to) ==
  [i \in 1..Len(text) |->
     IF \E k \in 1..26 : from[k] = text[i]
     THEN to[CHOOSE k \in 1..26 : from[k] = text[i]] ELSE text[i]]

\* The classification written for entry h of the history.
Classification(h) ==
  [category |-> PromptRowsAt(h.at)[1].category,
   subcategory |-> PromptRowsAt(h.at)[1].subcategory]

\* C25: every prompt with a non-blank character is classified; its category
\* is that of the first group, in the order feature development, bug fix,
\* testing, refactoring, documentation, code understanding, debugging, code
\* review, configuration, version control, that matches it, and {general,
\* other} if none does; the same text in upper case, in lower case, or
\* classified before in any letter case, has the same classification.
C25_ClassifierFirstMatchAnyCase ==
  \A i \in 1..Len(history) :
     (Kind(history[i]) = "UserPromptSubmit" /\ Trim(history[i].event.prompt) # <<>>)
     => /\ Len(PromptRowsAt(history[i].at)) = 1
        /\ Classification(history[i]).category = CategoryByOrder(history[i].event.prompt)
        /\ Classification(history[i]).category = "general"
             => Classification(history[i]).subcategory = "other"
        /\ categorizePrompt(InCase(history[i].event.prompt, LowerCase, UpperCase))
             = Classification(history[i])
        /\ categorizePrompt(InCase(history[i].event.prompt, UpperCase, LowerCase))
             = Classification(history[i])
        /\ \A j \in 1..(i - 1) :
             InCase(history[j].event.prompt, UpperCase, LowerCase)
               = InCase(history[i].event.prompt, UpperCase, LowerCase)
             => Classification(history[j]) = Classification(history[i])

\* C25 witness: "deploy git", which the version-control group matches too,
\* was classified as configuration; then "GIT" was classified as version
\* control.
C25_Witness ==
  /\ Len(history) = 2
  /\ history[1].event.prompt = <<"d","e","p","l","o","y"," ","g","i","t">>
  /\ Classification(history[1]) = [category |-> "configuration", subcategory |-> "setup"]
  /\ MatchingGroups(history[1].event.prompt) = {9, 10}
  /\ history[2].event.prompt = <<"G","I","T">>
  /\ Classification(history[2]) = [category |-> "version_control", subcategory |-> "git_operations"]

\* ------------------------------------------------------ one row of values
\* The values of a row: every text up to MaxValueLen over a formula trigger,
\* the comma, the double quote, the newline and two other characters, next to
\* a value that is null, starts with another trigger or is plain.
EscapeAlphabet == {"=", ",", "\"", "\n", "a", "'"}
FirstValues == UNION {[1..k -> EscapeAlphabet] : k \in 0..MaxValueLen}
SecondValues == {Null, <<"a">>, <<"-", "1">>, <<"+", ",">>, <<"@">>, <<"\t">>, <<"\r", "\"">>}

InitEscape ==
  /\ stateFiles = [s \in Sessions |-> NoStateFile]
  /\ csvFiles = [k \in Ledgers |-> [exists |-> FALSE, lines |-> <<>>]]
  /\ now = 1
  /\ history = <<>>
  /\ running = <<>>
  /\ disk = <<>>

\* buildCSVRow is applied to a row of two values.
BuildsRow ==
  /\ history = <<>>
  /\ \E v \in FirstValues, w \in SecondValues :
       history' = <<[values |-> <<v, w>>, row |-> buildCSVRow(<<v, w>>)]>>
  /\ UNCHANGED <<stateFiles, csvFiles, now, running, disk>>

SpecEscape == InitEscape /\ [][BuildsRow]_vars

\* The fields of a row as they are stored, quotes included: the row cut at
\* the commas that no pair of double quotes encloses.
RECURSIVE StoredFieldsFrom(_, _, _, _)
StoredFieldsFrom(row, i, current, quoted) ==
  IF i > Len(row) THEN <<current>>
  ELSE IF row[i] = "," /\ ~quoted
       THEN <<current>> \o StoredFieldsFrom(row, i + 1, <<>>, quoted)
  ELSE StoredFieldsFrom(row, i + 1, Append(current, row[i]), (row[i] = "\"") # quoted)
StoredFields(row) == StoredFieldsFrom(row, 1, <<>>, FALSE)

\* field is text between two double quotes in which every double quote has
\* a second one next to it.
IsQuoted(field, text) ==
  /\ Len(field) >= 2
  /\ field[1] = "\"" /\ field[Len(field)] = "\""
  /\ SubSeq(field, 2, Len(field) - 1) = DoubleQuotes(text)

\* field is value as C26 wants it stored.
EscapedAs(field, value) ==
  /\ (value # <<>> /\ value[1] \in FormulaTriggers)
       => \/ field[1] = "'"
          \/ field[1] = "\"" /\ field[2] = "'"
  /\ (\E i \in DOMAIN value : value[i] \in {",", "\"", "\n"})
       => \/ IsQuoted(field, value)
          \/ IsQuoted(field, <<"'">> \o value) /\ value[1] \in FormulaTriggers
  /\ (field = <<>> \/ field[1] \notin FormulaTriggers)
  /\ (field # <<>> /\ field[1] # "\"") => \A i \in DOMAIN field : field[i] # ","

\* C26: the row built from values has one stored field per value; the field
\* of a value that starts with a formula trigger starts with an apostrophe
\* (inside the quotes if it is quoted), the field of a value with a comma, a
\* double quote or a newline is the value (after the apostrophe, if any) in
\* double quotes with its double quotes doubled; no field begins with a
\* formula trigger, and no field without quotes contains a comma.
C26_FieldsEscaped ==
  \A n \in DOMAIN history :
    /\ Len(StoredFields(history[n].row)) = Len(history[n].values)
    /\ \A i \in DOMAIN history[n].values :
         IF history[n].values[i] = Null
         THEN StoredFields(history[n].row)[i] = <<>>
         ELSE /\ EscapedAs(StoredFields(history[n].row)[i], history[n].values[i])
              /\ parseCSVRow(history[n].row)[i] =
                   IF history[n].values[i] # <<>> /\ history[n].values[i][1] \in FormulaTriggers
                   THEN <<"'">> \o history[n].values[i] ELSE history[n].values[i]

\* C26 witness: the value =,a was stored as "'=,a" (prefixed, then wrapped),
\* next to a value that starts with a tab.
C26_Witness ==
  /\ Len(history) = 1
  /\ history[1].values = << <<"=", ",", "a">>, <<"\t">> >>
  /\ history[1].row = <<"\"", "'", "=", ",", "a", "\"", ",", "'", "\t">>

\* ------------------------------------------ the steps of PromptSubmitted
\* The ledger holds the Turn record of turn n, not interrupted.
TurnRecorded(csv, n) ==
  \E r \in DOMAIN Rows(csv, "turns") :
     /\ Rows(csv, "turns")[r].turn_number = n
     /\ Rows(csv, "turns")[r].was_interrupted = 0

\* C27: a PromptSubmitted with a non-blank prompt that finds turn n open
\* appends the Turn record of n first. If that append succeeds, the state
\* with turn n+1 is persisted and then the Prompt Classification record is
\* appended - the state shows n+1 whether or not this second append
\* succeeds. If it fails, the state is left as it was and no second append
\* is attempted. The state never shows n+1 without the Turn record of n.
C27_TurnRowThenStateThenPromptRow ==
  \A i \in DOMAIN history :
    (Kind(history[i]) = "UserPromptSubmit" /\ history[i].before.status = "ok")
    => /\ Len(history[i].calls) >= 1
       /\ history[i].calls[1].ledger = "turns"
       /\ IF history[i].calls[1].result = "written"
          THEN /\ TurnRecorded(history[i].csvAfter, history[i].before.currentTurn.number)
               /\ history[i].after.currentTurn.number
                    = history[i].before.currentTurn.number + 1
               /\ Len(history[i].calls) = 2
               /\ history[i].calls[2].ledger = "prompts"
          ELSE /\ ~TurnRecorded(history[i].csvAfter, history[i].before.currentTurn.number)
               /\ history[i].after = history[i].before
               /\ Len(history[i].calls) = 1
       /\ history[i].after.currentTurn.number = history[i].before.currentTurn.number + 1
            => TurnRecorded(history[i].csvAfter, history[i].before.currentTurn.number)

\* C27 witness: the Turn record of turn 1 was appended at the second attempt,
\* the append of the Prompt Classification record failed, and the state
\* shows turn 2.
C27_Witness ==
  /\ Len(history) = 1
  /\ Kind(history[1]) = "UserPromptSubmit"
  /\ history[1].before.status = "ok"
  /\ history[1].before.currentTurn.number = 1
  /\ history[1].calls[1] = [ledger |-> "turns", tried |-> <<"EBUSY", "ok">>, result |-> "written"]
  /\ Len(history[1].calls) = 2
  /\ history[1].calls[2].result = "thrown"
  /\ history[1].after.currentTurn.number = 2
  /\ history[1].appended["prompts"] = 0

\* ------------------------------------------- the state a prompt leaves
\* C28: after a PromptSubmitted the persisted turn number is 1 if there was
\* no state and the number before plus 1 otherwise, the start time is the
\* time of the event, the tool count and the turn-scoped cost are 0; the
\* cumulative session cost, the in-flight map and the key counter are those
\* persisted before (0, empty and 0 if there was no state). An event of
\* another kind leaves the turn number as it was, and creates no state.
C28_PromptResetsTurnFieldsOnly ==
  \A i \in DOMAIN history :
    IF Kind(history[i]) = "UserPromptSubmit"
    THEN /\ history[i].after.status = "ok"
         /\ history[i].after.currentTurn.startTime = history[i].at
         /\ history[i].after.currentTurn.toolCount = 0
         /\ history[i].after.currentTurn.turnCost = 0
         /\ IF history[i].before.status = "ok"
            THEN /\ history[i].after.currentTurn.number
                      = history[i].before.currentTurn.number + 1
                 /\ history[i].after.currentTurn.totalSessionCost
                      = history[i].before.currentTurn.totalSessionCost
                 /\ history[i].after.toolStartData = history[i].before.toolStartData
                 /\ history[i].after.toolCounter = history[i].before.toolCounter
            ELSE /\ history[i].after.currentTurn.number = 1
                 /\ history[i].after.currentTurn.totalSessionCost = 0
                 /\ history[i].after.toolStartData = <<>>
                 /\ history[i].after.toolCounter = 0
    ELSE /\ history[i].after.status = history[i].before.status
         /\ history[i].before.status = "ok"
              => history[i].after.currentTurn.number = history[i].before.currentTurn.number

\* C28 witness: a prompt arrives in turn 1 after a tool has started and a
\* stop has added a cost; the state then shows turn 2 with the tool count and
\* the turn cost back at 0, the session cost and the in-flight entry kept.
C28_Witness ==
  \E i \in DOMAIN history :
    /\ Kind(history[i]) = "UserPromptSubmit"
    /\ history[i].before.status = "ok"
    /\ history[i].before.currentTurn.number = 1
    /\ history[i].before.currentTurn.toolCount = 1
    /\ history[i].before.currentTurn.turnCost > 0
    /\ history[i].before.toolStartData # <<>>
    /\ history[i].after.currentTurn.number = 2
    /\ history[i].after.currentTurn.turnCost = 0
    /\ history[i].after.currentTurn.totalSessionCost > 0
    /\ history[i].after.toolStartData = history[i].before.toolStartData

\* --------------------------------------------- the row of a finished tool
\* The Tool Invocation rows written at time t.
ToolRowsAt(t) == SelectSeq(Rows(csvFiles, "tools"), LAMBDA r : r.completed_at = t)

\* The position in history of the PreToolUse that stored the in-flight entry
\* under key and persisted it, seen from position i.
StartOf(i, key) ==
  CHOOSE j \in 1..(i - 1) :
     /\ Kind(history[j]) = "PreToolUse"
     /\ history[j].toolKey = Some(key)
     /\ history[j].after.status = "ok"
     /\ \A k \in (j + 1)..(i - 1) : history[k].toolKey # Some(key)

\* C29: a PostToolUse that matches an in-flight entry appends one Tool
\* Invocation row with the tool name, the turn open when the tool started,
\* the time of the start and the input size of the start event, and with
\* processing time = time of the finish - time of the start; the persisted
\* in-flight map loses that entry and no other, and the key counter and the
\* turn fields (number, start time, tool count, costs) stay as they were.
C29_MatchedFinishRowAndFrame ==
  \A i \in DOMAIN history :
    (Kind(history[i]) = "PostToolUse" /\ IsSome(history[i].matchingKey))
    => /\ history[i].appended["tools"] = 1
       /\ Len(ToolRowsAt(history[i].at)) = 1
       /\ \E j \in 1..(i - 1) : j = StartOf(i, Get(history[i].matchingKey))
       /\ \A start \in {history[StartOf(i, Get(history[i].matchingKey))]} :
          \A row \in {ToolRowsAt(history[i].at)[1]} :
            /\ row.tool_name = start.event.tool_name
            /\ row.tool_name = history[i].event.tool_name
            /\ row.turn_number = start.before.currentTurn.number
            /\ row.started_at = start.at
            /\ row.input_size = JsonLength(start.event.tool_input)
            /\ row.processing_time_ms = history[i].at - start.at
       /\ history[i].after.status = "ok"
       /\ history[i].after.toolStartData
            = ObjDelete(history[i].before.toolStartData, Get(history[i].matchingKey))
       /\ Len(history[i].after.toolStartData) = Len(history[i].before.toolStartData) - 1
       /\ history[i].after.toolCounter = history[i].before.toolCounter
       /\ history[i].after.currentTurn = history[i].before.currentTurn

\* C29 witness: Bash started in turn 1 and finished in turn 2, after a Read
\* had started too: the row carries turn 1 and the entry of Read stays.
C29_Witness ==
  \E i \in DOMAIN history :
    /\ Kind(history[i]) = "PostToolUse"
    /\ history[i].matchingKey = Some(<<"s1", "Bash", 1>>)
    /\ history[i].before.currentTurn.number = 2
    /\ Len(ToolRowsAt(history[i].at)) = 1
    /\ ToolRowsAt(history[i].at)[1].turn_number = 1
    /\ Len(history[i].after.toolStartData) = 1
    /\ history[i].after.toolStartData[1].val.toolName = "Read"

\* ------------------------------------------- invocations that overlap
\* The events of the processes that overlap: a prompt, the start and the
\* finish of a tool.
OverlapEvents ==
  {[Event("UserPromptSubmit", "s1", "") EXCEPT !.prompt = <<"f", "i", "x">>],
   Event("PreToolUse", "s1", "Bash"),
   Event("PostToolUse", "s1", "Bash")}

\* The statements of a handler between its load and its save, in a process
\* with the state p.file it loaded: handleTurnStart writes the open turn and
\* opens the next, handleToolStart stores the in-flight entry, handleToolEnd
\* writes the row of the matched entry and deletes it.
BeforeSave(p, eventData, matchingKey, t) ==
  IF eventData.hook_event_name = "UserPromptSubmit"
  THEN OpenTurn(CloseTurn(p, eventData.session_id, t), t)
  ELSE IF eventData.hook_event_name = "PreToolUse"
  THEN TrackToolStart(AdvanceToolCounter(CountTool(p)),
                      eventData.session_id, eventData.tool_name, eventData, t)
  ELSE IF ~IsSome(matchingKey) THEN [p EXCEPT !.stderr = @ + 1]
  ELSE ToolEndGit(
         ForgetToolStart(
           ToolRow(p, ObjGet(Get(p.toolStartData), Get(matchingKey)),
                   eventData.session_id, eventData.tool_name, eventData, t),
           Get(matchingKey)),
         ObjGet(Get(p.toolStartData), Get(matchingKey)),
         eventData.session_id, eventData.tool_name, eventData)

\* handleToolEnd returns before its save when no entry matches.
ReturnsEarly(p, eventData) ==
  /\ eventData.hook_event_name = "PostToolUse"
  /\ ~IsSome(IF IsSome(p.toolStartData)
             THEN FindMatchingKey(Get(p.toolStartData), eventData.tool_name) ELSE None)

\* The statements of a handler after its save.
AfterSave(p, eventData, t) ==
  IF eventData.hook_event_name = "UserPromptSubmit"
  THEN RecordPrompt(p, eventData.session_id, eventData.prompt,
                    categorizePrompt(eventData.prompt), t)
  ELSE IF eventData.hook_event_name = "PreToolUse"
  THEN ToolStartGit(p, eventData.session_id, eventData.tool_name, eventData, t)
  ELSE p

InitOverlap ==
  \E events \in Earlier :
     \E files \in {FilesAfter([state |-> [s \in Sessions |-> NoStateFile],
                                csv |-> [k \in Ledgers |-> [exists |-> FALSE, lines |-> <<>>]]],
                               events, 1)} :
        /\ stateFiles = files.state
        /\ csvFiles = files.csv
        /\ now = Len(events) + 1
        /\ history = <<>>
        /\ running = [i \in Procs |-> [pc |-> "idle"]]
        /\ disk = <<>>

\* A process starts on an event: its handler reads the clock and loads the
\* state file of the session.
LoadsState ==
  /\ \E i \in Procs, e \in OverlapEvents :
        /\ running[i].pc = "idle"
        /\ running' = [running EXCEPT ![i] =
              [pc |-> "loaded", event |-> e, at |-> now,
               p |-> LoadIfAbsent(NewProcess(stateFiles[e.session_id], csvFiles))]]
  /\ now' = now + 1
  /\ UNCHANGED <<stateFiles, csvFiles, history, disk>>

\* The handler runs up to its save: its appends go to the ledgers as they
\* are now.
AppendsBeforeSave ==
  /\ \E i \in Procs :
        /\ running[i].pc = "loaded"
        /\ \E p \in {BeforeSave([running[i].p EXCEPT !.csv = csvFiles], running[i].event,
                                 IF IsSome(running[i].p.toolStartData)
                                 THEN FindMatchingKey(Get(running[i].p.toolStartData),
                                                      running[i].event.tool_name)
                                 ELSE None,
                                 running[i].at)} :
              /\ csvFiles' = p.csv
              /\ running' = [running EXCEPT ![i].p = p,
                    ![i].pc = IF ReturnsEarly(running[i].p, running[i].event)
                              THEN "exited" ELSE "ready"]
  /\ UNCHANGED <<stateFiles, now, history, disk>>

\* saveTurnState writes what the process holds in memory (nothing, if it
\* holds no turn: the file stays as it is on disk).
SavesState ==
  /\ \E i \in Procs :
        /\ running[i].pc = "ready"
        /\ \E p \in {saveTurnState([running[i].p EXCEPT
                                       !.file = stateFiles[running[i].event.session_id]])} :
              /\ stateFiles' = [stateFiles EXCEPT ![running[i].event.session_id] = p.file]
              /\ history' = Append(history,
                    [event |-> running[i].event, at |-> running[i].at,
                     loaded |-> running[i].p.file,
                     before |-> stateFiles[running[i].event.session_id], after |-> p.file])
              /\ running' = [running EXCEPT ![i].p = p, ![i].pc = "saved"]
  /\ UNCHANGED <<csvFiles, now, disk>>

\* The handler runs from its save to its end, and the process exits.
AppendsAfterSave ==
  /\ \E i \in Procs :
        /\ running[i].pc = "saved"
        /\ \E p \in {AfterSave([running[i].p EXCEPT !.csv = csvFiles], running[i].event,
                                running[i].at)} :
              /\ csvFiles' = p.csv
              /\ running' = [running EXCEPT ![i].p = p, ![i].pc = "exited"]
  /\ UNCHANGED <<stateFiles, now, history, disk>>

NextOverlap ==
  \/ LoadsState
  \/ AppendsBeforeSave
  \/ SavesState
  \/ AppendsAfterSave

SpecOverlap == InitOverlap /\ [][NextOverlap]_vars

\* C30: whatever the interleaving of the loads, appends and saves of the
\* invocations of a session, no save lowers the persisted turn number, and
\* no two Turn records of the session carry the same turn number.
C30_OverlapKeepsTurnOrder ==
  /\ \A n \in DOMAIN history :
       (history[n].before.status = "ok" /\ history[n].after.status = "ok")
       => history[n].after.currentTurn.number >= history[n].before.currentTurn.number
  /\ \A s \in Sessions :
       \A a, b \in DOMAIN RowsOf(csvFiles, "turns", s) :
          a # b => RowsOf(csvFiles, "turns", s)[a].turn_number
                     # RowsOf(csvFiles, "turns", s)[b].turn_number

\* ------------------------------------------ two starts of the same tool
\* C31: a PreToolUse that found a turn open adds one entry to the persisted
\* in-flight map, under a key that no other entry has, keeps the entries
\* that were persisted, and raises the tool count of the turn by 1 - so two
\* of them, also two that overlap, leave two more entries and a tool count
\* that grew by 2.
C31_EachToolStartAddsAnEntry ==
  \A n \in DOMAIN history :
    (Kind(history[n]) = "PreToolUse" /\ history[n].loaded.status = "ok")
    => /\ history[n].after.status = "ok"
       /\ Len(history[n].after.toolStartData) = Len(history[n].before.toolStartData) + 1
       /\ \A i \in DOMAIN history[n].before.toolStartData :
            \E j \in DOMAIN history[n].after.toolStartData :
               history[n].after.toolStartData[j] = history[n].before.toolStartData[i]
       /\ \A i, j \in DOMAIN history[n].after.toolStartData :
            i # j => history[n].after.toolStartData[i].key # history[n].after.toolStartData[j].key
       /\ history[n].after.currentTurn.number = history[n].before.currentTurn.number
            => history[n].after.currentTurn.toolCount
                 = history[n].before.currentTurn.toolCount + 1

\* --------------------------------------------- invocations that may die
InitCrash ==
  \E events \in Earlier :
     \E files \in {FilesAfter([state |-> [s \in Sessions |-> NoStateFile],
                                csv |-> [k \in Ledgers |-> [exists |-> FALSE, lines |-> <<>>]]],
                               events, 1)} :
        /\ stateFiles = files.state
        /\ csvFiles = files.csv
        /\ now = Len(events) + 1
        /\ history = <<>>
        /\ running = <<[pc |-> "idle"]>>
        /\ disk = <<>>

\* The observer's entry for the invocation that ends with the state file
\* after, normally or by the death of the process at position pc.
Ended(outcome, after) ==
  Append(history,
    [event |-> running[1].event, at |-> running[1].at, outcome |-> outcome,
     diedAt |-> running[1].pc, before |-> running[1].p.file, after |-> after])

\* An invocation starts once the one before is over: its handler reads the
\* clock and loads the state file.
StartsEvent ==
  /\ running[1].pc = "idle"
  /\ Len(history) < MaxInvocations
  /\ \E e \in OverlapEvents :
        running' = <<[pc |-> "loaded", event |-> e, at |-> now,
                     p |-> LoadIfAbsent(NewProcess(stateFiles[e.session_id], csvFiles))]>>
  /\ now' = now + 1
  /\ UNCHANGED <<stateFiles, csvFiles, history, disk>>

\* The handler runs up to its save (or to its early return).
RunsToSave ==
  /\ running[1].pc = "loaded"
  /\ \E p \in {BeforeSave(running[1].p, running[1].event,
                           IF IsSome(running[1].p.toolStartData)
                           THEN FindMatchingKey(Get(running[1].p.toolStartData),
                                                running[1].event.tool_name)
                           ELSE None,
                           running[1].at)} :
        /\ csvFiles' = p.csv
        /\ IF ReturnsEarly(running[1].p, running[1].event)
           THEN /\ running' = <<[pc |-> "idle"]>>
                /\ history' = Ended("exited", stateFiles[running[1].event.session_id])
           ELSE /\ running' = <<[running[1] EXCEPT !.p = [p EXCEPT !.file = running[1].p.file],
                                                   !.pc = "ready"]>>
                /\ history' = history
  /\ UNCHANGED <<stateFiles, now, disk>>

\* saveTurnState completes.
WritesState ==
  /\ running[1].pc = "ready"
  /\ \E p \in {saveTurnState(running[1].p)} :
        /\ stateFiles' = [stateFiles EXCEPT ![running[1].event.session_id] = p.file]
        /\ running' = <<[running[1] EXCEPT !.pc = "saved"]>>
  /\ UNCHANGED <<csvFiles, now, history, disk>>

\* The handler runs from its save to its end, and the process exits.
RunsToEnd ==
  /\ running[1].pc = "saved"
  /\ \E p \in {AfterSave([running[1].p EXCEPT !.csv = csvFiles], running[1].event,
                          running[1].at)} :
        csvFiles' = p.csv
  /\ history' = Ended("exited", stateFiles[running[1].event.session_id])
  /\ running' = <<[pc |-> "idle"]>>
  /\ UNCHANGED <<stateFiles, now, disk>>

\* The process dies between two steps of the handler.
Dies ==
  /\ running[1].pc \in {"loaded", "ready", "saved"}
  /\ history' = Ended("died", stateFiles[running[1].event.session_id])
  /\ running' = <<[pc |-> "idle"]>>
  /\ UNCHANGED <<stateFiles, csvFiles, now, disk>>

\* The process dies while fs.writeFile is writing the state file.
DiesWhileSaving ==
  /\ running[1].pc = "ready"
  /\ IsSome(running[1].p.currentTurn)
  /\ stateFiles' = [stateFiles EXCEPT ![running[1].event.session_id] = TornStateFile]
  /\ history' = Ended("died", TornStateFile)
  /\ running' = <<[pc |-> "idle"]>>
  /\ UNCHANGED <<csvFiles, now, disk>>

NextCrash ==
  \/ StartsEvent
  \/ RunsToSave
  \/ WritesState
  \/ RunsToEnd
  \/ Dies
  \/ DiesWhileSaving

SpecCrash == InitCrash /\ [][NextCrash]_vars

\* C32: after an invocation has died, the state file holds the state of the
\* last save that completed (the one of the dead invocation, if it got that
\* far, and else the state the dead invocation found); and between
\* invocations the Turn records of the session carry the numbers 1, 2, 3,
\* ... in this order, none twice and none skipped.
C32_CrashKeepsStateAndTurns ==
  /\ \A n \in DOMAIN history :
       history[n].outcome = "died"
       => /\ history[n].after.status # "corrupt"
          /\ history[n].diedAt # "saved" => history[n].after = history[n].before
  /\ running[1].pc = "idle"
       => \A s \in Sessions :
            \A k \in DOMAIN RowsOf(csvFiles, "turns", s) :
               RowsOf(csvFiles, "turns", s)[k].turn_number = k

\* ------------------------------------ a record append that fails
\* The first appendCSV call of the run was for ledger k and raised its
\* failure.
FirstAppendFailed(h, k) ==
  /\ Len(h.calls) >= 1
  /\ h.calls[1].ledger = k
  /\ h.calls[1].result = "thrown"

\* C35: when the append of the open turn's Turn record fails in a
\* UserPromptSubmit, or the append of the Tool Invocation record fails in a
\* PostToolUse, the handler makes no further append and the state file is as
\* it was before the event (the same turn number, the in-flight entry still
\* there); the failure is written to stderr and the process exits with 0.
C35_FailedRecordAppendKeepsState ==
  \A i \in DOMAIN history :
    (\/ Kind(history[i]) = "UserPromptSubmit" /\ FirstAppendFailed(history[i], "turns")
     \/ Kind(history[i]) = "PostToolUse" /\ FirstAppendFailed(history[i], "tools"))
    => /\ history[i].after = history[i].before
       /\ history[i].before.status = "ok"
       /\ Len(history[i].calls) = 1
       /\ \A k \in Ledgers : history[i].appended[k] = 0
       /\ history[i].stderr >= 1
       /\ history[i].exit = 0

\* C35 witness: the append of the Tool Invocation record of a Bash tool in
\* flight failed at its third busy attempt; the entry is still persisted.
C35_Witness ==
  /\ Len(history) = 1
  /\ Kind(history[1]) = "PostToolUse"
  /\ history[1].calls = <<[ledger |-> "tools", tried |-> <<"EBUSY", "EBUSY", "EBUSY">>,
                            result |-> "thrown"]>>
  /\ Len(history[1].before.toolStartData) = 1
  /\ history[1].after.toolStartData = history[1].before.toolStartData
  /\ history[1].exit = 0

\* ------------------------------- a state file that fails to load or save
\* The outcomes of fs.writeFile in saveTurnState.
SaveOutcomes == {"ok", "EACCES", "ENOSPC"}

\* The files after the invocations of Earlier; the state file may have been
\* torn since.
InitState ==
  \E events \in Earlier, torn \in BOOLEAN :
     \E files \in {FilesAfter([state |-> [s \in Sessions |-> NoStateFile],
                                csv |-> [k \in Ledgers |-> [exists |-> FALSE, lines |-> <<>>]]],
                               events, 1)} :
        /\ stateFiles = IF torn THEN [s \in Sessions |-> TornStateFile] ELSE files.state
        /\ csvFiles = files.csv
        /\ now = Len(events) + 1
        /\ history = <<>>
        /\ running = <<>>
        /\ disk = <<>>

\* A run whose state file writes end with the outcome save.
StateRun ==
  /\ Len(history) < MaxStateRuns
  /\ \E e \in GoodEvents, save \in SaveOutcomes :
        Run(StdinOf(e), [Reliable EXCEPT !.save = save])

SpecState == InitState /\ [][StateRun]_vars

\* The run h as it would be without a state file, and with state file
\* writes that succeed.
AsIfNoState(h) == MainProgram(NoStateFile, h.csvBefore, h.stdin, h.env, h.at)
WithSave(h) == MainProgram(h.before, h.csvBefore, h.stdin, Reliable, h.at)

\* C36: a run never ends with an exception of loading or saving. With a
\* state file that cannot be parsed the run appends the rows of a run
\* without state, writes the state such a run writes and logs the error; a
\* UserPromptSubmit then appends no Turn record and, if its save succeeds,
\* leaves turn 1 with cost 0 and no in-flight entry. With a save that fails
\* the run appends the rows of a run whose save succeeds and logs the error.
C36_StateErrorsLoggedNotRaised ==
  \A i \in DOMAIN history :
    /\ history[i].exit = 0
    /\ history[i].before.status = "corrupt"
       => /\ history[i].csvAfter = AsIfNoState(history[i]).csv
          /\ history[i].after = IF AsIfNoState(history[i]).file = NoStateFile
                                THEN history[i].before
                                ELSE AsIfNoState(history[i]).file
          /\ history[i].stderr >= AsIfNoState(history[i]).stderr
          /\ Kind(history[i]) = "UserPromptSubmit"
             => /\ history[i].stderr = AsIfNoState(history[i]).stderr + 1
                /\ history[i].appended["turns"] = 0
                /\ history[i].env.save = "ok"
                   => history[i].after =
                        [status |-> "ok",
                         currentTurn |-> [number |-> 1, startTime |-> history[i].at,
                                          toolCount |-> 0, turnCost |-> 0,
                                          totalSessionCost |-> 0],
                         toolStartData |-> <<>>, toolCounter |-> 0]
    /\ history[i].env.save # "ok"
       => /\ history[i].csvAfter = WithSave(history[i]).csv
          /\ history[i].after \in {history[i].before, TornStateFile}
          /\ history[i].stderr >= WithSave(history[i]).stderr
          /\ Kind(history[i]) = "UserPromptSubmit"
             => history[i].stderr > WithSave(history[i]).stderr

\* C36 witness: a UserPromptSubmit found a state file it could not parse
\* where turn 1 had been recorded as open, opened turn 1 again and wrote no
\* Turn record; the save of the next UserPromptSubmit failed and its Prompt
\* Classification record was appended all the same.
C36_Witness ==
  /\ Len(history) = 2
  /\ Kind(history[1]) = "UserPromptSubmit"
  /\ history[1].before.status = "corrupt"
  /\ Len(Rows(history[1].csvBefore, "prompts")) = 1
  /\ history[1].appended["turns"] = 0
  /\ history[1].after.status = "ok"
  /\ history[1].after.currentTurn.number = 1
  /\ Kind(history[2]) = "UserPromptSubmit"
  /\ history[2].env.save = "EACCES"
  /\ history[2].after = history[2].before
  /\ history[2].appended["prompts"] = 1
  /\ history[2].exit = 0

\* ------------------------------------- in-flight entries across turns
\* Every entry of the in-flight map before is an entry of the map after,
\* but the one under the key removed, if any.
KeepsEntries(before, after, removed) ==
  \A e \in DOMAIN before :
     Some(before[e].key) # removed
     => \E f \in DOMAIN after : after[f] = before[e]

\* C37: a UserPromptSubmit, a PreCompact and a Stop leave the persisted
\* in-flight map and key counter as they were (empty and 0 where a
\* UserPromptSubmit creates the state); a PreToolUse keeps every entry; a
\* PostToolUse removes the entry it matched and no other. So an entry
\* persisted by a PreToolUse is in the map after every later invocation
\* until a PostToolUse matches it, and a PostToolUse that matches an entry of
\* an earlier turn writes its row with the turn number of the entry.
C37_InFlightEntriesOutliveTurns ==
  \A i \in DOMAIN history :
    /\ Kind(history[i]) \in {"UserPromptSubmit", "PreCompact", "Stop"}
       => IF history[i].before.status = "ok"
          THEN /\ history[i].after.status = "ok"
               /\ history[i].after.toolStartData = history[i].before.toolStartData
               /\ history[i].after.toolCounter = history[i].before.toolCounter
          ELSE history[i].after.status = "ok"
               => /\ history[i].after.toolStartData = <<>>
                  /\ history[i].after.toolCounter = 0
    /\ (Kind(history[i]) \in {"PreToolUse", "PostToolUse"} /\ history[i].before.status = "ok")
       => /\ history[i].after.status = "ok"
          /\ KeepsEntries(history[i].before.toolStartData, history[i].after.toolStartData,
                          history[i].matchingKey)
    /\ \A j \in 1..(i - 1) :
         (Kind(history[j]) = "PreToolUse" /\ history[j].after.status = "ok"
          /\ \A m \in (j + 1)..i : history[m].matchingKey # history[j].toolKey)
         => /\ history[i].after.status = "ok"
            /\ ObjHas(history[i].after.toolStartData, Get(history[j].toolKey))
            /\ ObjGet(history[i].after.toolStartData, Get(history[j].toolKey)).turnNumber
                 = history[j].before.currentTurn.number
    /\ (Kind(history[i]) = "PostToolUse" /\ IsSome(history[i].matchingKey))
       => \A entry \in {ObjGet(history[i].before.toolStartData, Get(history[i].matchingKey))} :
            /\ entry.toolName = history[i].event.tool_name
            /\ entry.turnNumber <= history[i].before.currentTurn.number
            /\ Len(ToolRowsAt(history[i].at)) = 1
            /\ ToolRowsAt(history[i].at)[1].turn_number = entry.turnNumber

\* C37 witness: Bash started in turn 1; a PreCompact and the UserPromptSubmit
\* that opened turn 2 kept its entry; its PostToolUse in turn 2 wrote a row
\* tagged with turn 1.
C37_Witness ==
  /\ Len(history) = 5
  /\ Kind(history[2]) = "PreToolUse"
  /\ history[2].before.currentTurn.number = 1
  /\ Kind(history[3]) = "PreCompact"
  /\ Kind(history[4]) = "UserPromptSubmit"
  /\ history[4].after.currentTurn.number = 2
  /\ history[4].after.toolStartData = history[2].after.toolStartData
  /\ Kind(history[5]) = "PostToolUse"
  /\ history[5].matchingKey = history[2].toolKey
  /\ ToolRowsAt(history[5].at)[1].turn_number = 1
  /\ history[5].after.toolStartData = <<>>

\* --------------------------------------------- the repository context cache
\* disk holds the cache file .git-cache.json (absent, empty after the
\* truncation of a write, or with facts) and what the environment answers:
\* whether the git commands succeed, the branch ("" with a detached head),
\* the head commit and $USER.
RepoUrl == <<"h", "/", "r", ".", "g", "i", "t">>
NoCache == [status |-> "absent"]
EmptyCache == [status |-> "empty"]

\* repoUrl.trim().replace(/.*\/([^\/]+)\.git$/, "$1").replace(/.*\/([^\/]+)$/, "$1")
LastSegment(url) ==
  IF Len(Split(url, "/")) > 1 /\ Len(Split(url, "/")[Len(Split(url, "/"))]) > 0
  THEN Split(url, "/")[Len(Split(url, "/"))]
  ELSE url
WithoutDotGit(url) ==
  IF /\ Len(Split(url, "/")) > 1
     /\ Len(LastSegment(url)) > 4
     /\ SubSeq(url, Len(url) - 3, Len(url)) = <<".", "g", "i", "t">>
  THEN SubSeq(LastSegment(url), 1, Len(LastSegment(url)) - 4)
  ELSE url
RepoName(url) == LastSegment(WithoutDotGit(url))

\* readGitCache: null when the file is missing or does not parse.
readGitCache(d) == IF d.cache.status = "ok" THEN Some(d.cache.facts) ELSE None

\* getUserId: the cached identity if there is one, else git config
\* user.email, else $USER, else "unknown".
getUserId(d) ==
  IF IsSome(readGitCache(d)) /\ Get(readGitCache(d)).userId # ""
  THEN [userId |-> Get(readGitCache(d)).userId, queried |-> FALSE]
  ELSE [userId |-> IF d.git.ok THEN "me@h"
                   ELSE IF d.git.user # "" THEN d.git.user ELSE "unknown",
        queried |-> TRUE]

\* getRepoInfo: the cached facts if url, name and branch are all there,
\* else the answers of git, else "unknown" four times.
getRepoInfo(d) ==
  IF /\ IsSome(readGitCache(d))
     /\ Get(readGitCache(d)).repoUrl # <<>>
     /\ Get(readGitCache(d)).repoName # <<>>
     /\ Get(readGitCache(d)).branch # ""
  THEN [url |-> Get(readGitCache(d)).repoUrl, name |-> Get(readGitCache(d)).repoName,
        branch |-> Get(readGitCache(d)).branch,
        headCommit |-> IF Get(readGitCache(d)).headCommit # ""
                       THEN Get(readGitCache(d)).headCommit ELSE "unknown",
        queried |-> FALSE]
  ELSE IF d.git.ok
  THEN [url |-> RepoUrl, name |-> RepoName(RepoUrl), branch |-> d.git.branch,
        headCommit |-> d.git.head, queried |-> TRUE]
  ELSE [url |-> <<"unknown">>, name |-> <<"unknown">>, branch |-> "unknown",
        headCommit |-> "unknown", queried |-> TRUE]

\* The object initialize hands to writeGitCache.
CacheFacts(q) ==
  [userId |-> q.userId, repoUrl |-> q.repoInfo.url, repoName |-> q.repoInfo.name,
   branch |-> q.repoInfo.branch, headCommit |-> q.repoInfo.headCommit]

InitGitCache ==
  /\ stateFiles = [s \in Sessions |-> NoStateFile]
  /\ csvFiles = [k \in Ledgers |-> [exists |-> FALSE, lines |-> <<>>]]
  /\ now = 1
  /\ history = <<>>
  /\ running = <<>>
  /\ \E ok \in BOOLEAN, branch \in {"main", ""}, user \in {"", "root"} :
       disk = [cache |-> NoCache,
               git |-> [ok |-> ok, branch |-> branch, head |-> "c1", user |-> user]]

\* A new invocation; since: the number of cache writes and fact readings
\* completed before it began.
StartsInvocation ==
  /\ Len(running) < MaxCacheRuns
  /\ running' = Append(running, [pc |-> "start", since |-> Len(history)])
  /\ UNCHANGED <<stateFiles, csvFiles, now, history, disk>>

\* initialize: this.userId = await this.getUserId()
GetsUserId ==
  /\ \E i \in DOMAIN running :
       /\ running[i].pc = "start"
       /\ running' = [running EXCEPT ![i] =
            [pc |-> "user", since |-> running[i].since,
             userId |-> getUserId(disk).userId, queriedUser |-> getUserId(disk).queried]]
  /\ UNCHANGED <<stateFiles, csvFiles, now, history, disk>>

\* initialize: this.repoInfo = await this.getRepoInfo(); from here on the
\* records of the invocation carry these facts.
GetsRepoInfo ==
  /\ \E i \in DOMAIN running :
       /\ running[i].pc = "user"
       /\ running' = [running EXCEPT ![i] =
            [pc |-> "initialized", since |-> running[i].since,
             userId |-> running[i].userId, repoInfo |-> getRepoInfo(disk)]]
       /\ history' = Append(history,
            [kind |-> "took", since |-> running[i].since,
             facts |-> CacheFacts([userId |-> running[i].userId, repoInfo |-> getRepoInfo(disk)]),
             queried |-> running[i].queriedUser \/ getRepoInfo(disk).queried])
  /\ UNCHANGED <<stateFiles, csvFiles, now, disk>>

\* writeGitCache, not awaited: fs.writeFile opens the file, which truncates it.
TruncatesCache ==
  /\ \E i \in DOMAIN running :
       /\ running[i].pc = "initialized"
       /\ running' = [running EXCEPT ![i].pc = "writing"]
  /\ disk' = [disk EXCEPT !.cache = EmptyCache]
  /\ UNCHANGED <<stateFiles, csvFiles, now, history>>

\* writeGitCache: the JSON text is written.
WritesCache ==
  /\ \E i \in DOMAIN running :
       /\ running[i].pc = "writing"
       /\ running' = [running EXCEPT ![i].pc = "written"]
       /\ disk' = [disk EXCEPT !.cache = [status |-> "ok", facts |-> CacheFacts(running[i])]]
       /\ history' = Append(history, [kind |-> "cached", since |-> running[i].since,
                                       facts |-> CacheFacts(running[i]), queried |-> FALSE])
  /\ UNCHANGED <<stateFiles, csvFiles, now>>

\* process.exit at the end of the stdin end handler; the cache write may
\* not have begun, or not have got beyond the truncation.
ExitsProcess ==
  /\ \E i \in DOMAIN running :
       /\ running[i].pc \in {"initialized", "writing", "written"}
       /\ running' = [running EXCEPT ![i].pc = "exited"]
  /\ UNCHANGED <<stateFiles, csvFiles, now, history, disk>>

\* The environment: another branch is checked out, with another head.
ChecksOutBranch ==
  /\ disk.git.branch # "dev"
  /\ disk' = [disk EXCEPT !.git.branch = "dev", !.git.head = "c2"]
  /\ UNCHANGED <<stateFiles, csvFiles, now, history, running>>

\* The environment: the git commands succeed from now on.
GitRecovers ==
  /\ ~disk.git.ok
  /\ disk' = [disk EXCEPT !.git.ok = TRUE]
  /\ UNCHANGED <<stateFiles, csvFiles, now, history, running>>

NextGitCache ==
  \/ StartsInvocation
  \/ GetsUserId
  \/ GetsRepoInfo
  \/ TruncatesCache
  \/ WritesCache
  \/ ExitsProcess
  \/ ChecksOutBranch
  \/ GitRecovers

SpecGitCache == InitGitCache /\ [][NextGitCache]_vars

\* The facts name a user, a repository URL, a repository name and a branch.
Complete(facts) ==
  /\ facts.userId # ""
  /\ facts.repoUrl # <<>>
  /\ facts.repoName # <<>>
  /\ facts.branch # ""

\* C38: once a cache write with a user, a URL, a name and a branch is
\* complete, every invocation that begins later takes exactly these facts
\* without asking git, every later cache write writes them again, and the
\* cache file, whenever it can be read, holds them.
C38_CachedFactsNeverChange ==
  \A i \in DOMAIN history :
    (history[i].kind = "cached" /\ Complete(history[i].facts))
    => /\ disk.cache.status = "ok" => disk.cache.facts = history[i].facts
       /\ \A j \in (i + 1)..Len(history) :
            /\ history[j].kind = "cached" => history[j].facts = history[i].facts
            /\ (history[j].kind = "took" /\ history[j].since >= i)
               => /\ ~history[j].queried
                  /\ history[j].facts = history[i].facts

\* --------------------------------------------- a row built and parsed
\* The lists of up to two values without a newline: null, and every text up
\* to MaxFieldLen over a formula trigger, the comma, the double quote, the
\* carriage return and a letter.
RoundTripAlphabet == {"=", ",", "\"", "\r", "a"}
RoundTripValues == {Null} \cup UNION {[1..k -> RoundTripAlphabet] : k \in 0..MaxFieldLen}
RoundTripLists == UNION {[1..n -> RoundTripValues] : n \in 0..2}

\* parseCSVRow is applied to the row that buildCSVRow made of a list.
ParsesBuiltRow ==
  /\ history = <<>>
  /\ \E values \in RoundTripLists :
       history' = <<[values |-> values, row |-> buildCSVRow(values),
                     parsed |-> parseCSVRow(buildCSVRow(values))]>>
  /\ UNCHANGED <<stateFiles, csvFiles, now, running, disk>>

SpecRoundTrip == InitEscape /\ [][ParsesBuiltRow]_vars

\* The text that comes back for a value: nothing for null, the value with
\* an apostrophe in front if it starts with a formula trigger, the value
\* itself otherwise.
ComesBackAs(value) ==
  IF value = Null THEN <<>>
  ELSE IF value # <<>> /\ value[1] \in FormulaTriggers THEN <<"'">> \o value
  ELSE value

\* Every element of the parsed row is the text of the value at its place.
ElementsComeBack(h) ==
  \A i \in DOMAIN h.values : i \in DOMAIN h.parsed /\ h.parsed[i] = ComesBackAs(h.values[i])

Schemas ==
  {<<"x", ",", "y">>, <<"x", ",", "z">>, <<"z", ",", "y", ",", "x">>}

\* The values of the rows written before: plain, with a comma, empty, a
\* formula, with a double quote, a negative number, null, with a newline.
Records ==
  <<<< <<"a">>, <<"b">>, <<"c">> >>,
    << <<"b", ",", "c">>, <<>>, <<"=", "1">> >>,
    << <<"q", "\"", "r">>, <<"-", "2">>, Null >>,
    << <<"a", "\n", "b">>, <<"c">>, <<"d">> >> >>

\* The rows of the ledger files found on disk, as indexes of Records.
EarlierRows == {<<>>, <<1>>, <<2, 3>>, <<3, 1>>, <<4, 2>>}

\* The values of row r for the columns of header.
ValuesFor(header, r) == SubSeq(Records[r], 1, Len(parseCSVRow(header)))

\* The ledger file that holds header and the rows rs.
LedgerText(header, rs) ==
  header \o <<"\n">> \o
  (IF Len(rs) = 0 THEN <<>>
   ELSE Join([i \in DOMAIN rs |-> buildCSVRow(ValuesFor(header, rs[i]))], <<"\n">>) \o <<"\n">>)

\* The failures of the file system calls, and where a write breaks off.
Cuts == {0, 5}
Faults ==
  {NoFault, [op |-> "readFile", cut |-> 0]}
    \cup {[op |-> o, cut |-> c] : o \in {"copyFile", "writeFile"}, c \in Cuts}

InitLedgerFile ==
  /\ stateFiles = [s \in Sessions |-> NoStateFile]
  /\ csvFiles = [k \in Ledgers |-> [exists |-> FALSE, lines |-> <<>>]]
  /\ now = 1
  /\ running = <<>>
  /\ \E header \in Schemas, rs \in EarlierRows, exists \in BOOLEAN :
       \E d \in {[ledger |-> IF exists
                              THEN [exists |-> TRUE, content |-> LedgerText(header, rs)]
                              ELSE NoLedgerFile,
                  backups |-> <<>>, stderr |-> 0, thrown |-> FALSE]} :
          /\ exists \/ rs = <<>>
          /\ disk = d
          /\ history = <<[op |-> "earlier", expected |-> header, rows |-> rs,
                          fault |-> NoFault, at |-> 0, before |-> d, after |-> d]>>

\* A version of the program with header expected initializes the ledger.
Initializes ==
  /\ Len(history) <= MaxFileOps
  /\ \E expected \in Schemas, fault \in Faults :
       \E d \in {ensureHeader(disk, expected, fault, now)} :
          /\ disk' = d
          /\ history' = Append(history, [op |-> "initialize", expected |-> expected, rows |-> <<>>,
                                         fault |-> fault, at |-> now, before |-> disk, after |-> d])
  /\ now' = now + 1
  /\ UNCHANGED <<stateFiles, csvFiles, running>>

\* A handler of the version that initialized last appends a row.
AppendsRow ==
  /\ Len(history) <= MaxFileOps
  /\ history[Len(history)].op # "earlier"
  /\ \E r \in DOMAIN Records, fault \in {NoFault, [op |-> "appendFile", cut |-> 2]} :
       \E d \in {appendRow(disk, buildCSVRow(ValuesFor(history[Len(history)].expected, r)), fault)} :
          /\ disk' = d
          /\ history' = Append(history, [op |-> "append", expected |-> history[Len(history)].expected,
                                         rows |-> <<r>>, fault |-> fault, at |-> now,
                                         before |-> disk, after |-> d])
  /\ now' = now + 1
  /\ UNCHANGED <<stateFiles, csvFiles, running>>

NextLedgerFile ==
  \/ Initializes
  \/ AppendsRow

SpecMigrate == InitLedgerFile /\ [][NextLedgerFile]_vars

\* The data rows of a file as every reader of the ledgers counts them: the
\* non-blank lines after the first.
DataRows(content) == Tail(NonBlankLines(content))

\* Operation h found a header line other than the expected one and no file
\* system call failed.
Migrated(h) ==
  /\ h.op = "initialize"
  /\ h.fault = NoFault
  /\ NonBlankLines(h.before.ledger.content) # <<>>
  /\ NonBlankLines(h.before.ledger.content)[1] # h.expected

Stored(value) == IF value = Null THEN <<>> ELSE Neutralize(value)

\* The values row r, written under the header old, has under the columns of
\* the header new: those of the columns of the same name, nothing for a
\* column that old does not have.
ValuesByName(old, new, r) ==
  [j \in DOMAIN parseCSVRow(new) |->
     IF IndexOf(parseCSVRow(old), parseCSVRow(new)[j]) > 0
     THEN Stored(Records[r][IndexOf(parseCSVRow(old), parseCSVRow(new)[j])])
     ELSE <<>>]

\* C22: when a ledger that holds the rows written under one header is
\* migrated to another header, the migrated ledger has one row per row
\* written, in the same order, and each holds under every column of the new
\* header the value the row had under the column of that name, and nothing
\* under a column that is new; no other value appears.
C22_MigrationMapsColumnsByName ==
  \A i \in DOMAIN history :
    (i = 2 /\ Migrated(history[i])) =>
       /\ Len(DataRows(history[i].after.ledger.content)) = Len(history[1].rows)
       /\ \A n \in DOMAIN history[1].rows :
            n \in DOMAIN DataRows(history[i].after.ledger.content) =>
              parseCSVRow(DataRows(history[i].after.ledger.content)[n]) =
                ValuesByName(history[1].expected, history[i].expected, history[1].rows[n])

\* The rows a file holds: its non-blank lines that end with a newline.
RowSet(content) ==
  LET lines == Split(content, "\n")
  IN {l \in {lines[n] : n \in 1..(Len(lines) - 1)} : Trim(l) # <<>>}

\* The rows in the ledger file or in a backup whose copy completed.
AvailableRows ==
  RowSet(disk.ledger.content) \cup
  UNION {RowSet(disk.backups[b].content) : b \in {c \in DOMAIN disk.backups : disk.backups[c].complete}}

HasHeader(d, header) ==
  /\ d.ledger.exists
  /\ NonBlankLines(d.ledger.content) # <<>>
  /\ NonBlankLines(d.ledger.content)[1] = header

\* C40: an initialization that finds the expected header as the first
\* non-blank line leaves the ledger file as it is and adds no backup; so
\* does an initialization that follows one of the same version whose file
\* system calls all succeeded - whether that one created the file, migrated
\* it or left it alone.
C40_InitializationIdempotent ==
  \A i \in DOMAIN history :
    /\ (history[i].op = "initialize" /\ HasHeader(history[i].before, history[i].expected))
       => /\ history[i].after.ledger = history[i].before.ledger
          /\ history[i].after.backups = history[i].before.backups
    /\ (/\ i > 1
        /\ history[i].op = "initialize"
        /\ history[i - 1].op = "initialize"
        /\ history[i - 1].fault = NoFault
        /\ history[i].expected = history[i - 1].expected)
       => /\ HasHeader(history[i].before, history[i].expected)
          /\ history[i].after.ledger = history[i - 1].after.ledger
          /\ history[i].after.backups = history[i - 1].after.backups

\* C40 witness: a ledger of two rows under x,y was migrated to z,y,x and
\* initialized again: the file is the migrated one, with its one backup.
C40_Witness ==
  /\ Len(history) = 3
  /\ history[1].expected = <<"x", ",", "y">> /\ history[1].rows = <<2, 3>>
  /\ Migrated(history[2])
  /\ history[2].expected = <<"z", ",", "y", ",", "x">>
  /\ history[3].op = "initialize"
  /\ history[3].fault = NoFault
  /\ history[3].expected = history[2].expected
  /\ disk.ledger = history[2].after.ledger
  /\ Len(DataRows(disk.ledger.content)) = 2
  /\ Len(disk.backups) = 1

\* ------------------------------------------------ the runs of the program
\* The input of run h stayed within the size limit.
WithinLimit(h) == ReadChunks(h.stdin.chunks, 0)

\* Run h received an event as JSON in an environment without stream errors
\* and with a data directory that can be created.
EventReached(h) ==
  /\ WithinLimit(h)
  /\ h.stdin.text = "json"
  /\ h.env.error.at = "never"
  /\ h.env.mkdir = "ok"

\* The event lacks what the claim C15 lists.
Incomplete(e) ==
  \/ ~e.is_object
  \/ e.hook_event_name = ""
  \/ ~e.name_is_string
  \/ e.hook_event_name \notin
       {"UserPromptSubmit", "PreToolUse", "PostToolUse", "PreCompact", "Stop"}
  \/ e.hook_event_name \in {"PreToolUse", "PostToolUse"} /\ e.tool_name = ""

\* The data rows of every ledger are the same after run h as before it.
SameRows(h) == \A k \in Ledgers : Rows(h.csvAfter, k) = Rows(h.csvBefore, k)

\* C15: an event without a kind, with a kind that is not a string or not one
\* of the five kinds, or a tool event without a tool name is rejected: one
\* diagnostic is logged, no handler runs (no key is computed, no append is
\* attempted), the run ends normally, and the state file and the data rows
\* of every ledger are the same after the run as before it.
C15_InvalidEventRejected ==
  \A i \in DOMAIN history :
    (EventReached(history[i]) /\ Incomplete(history[i].event)) =>
       /\ history[i].stderr = 1
       /\ history[i].exit = 0
       /\ history[i].calls = <<>>
       /\ history[i].toolKey = None /\ history[i].matchingKey = None
       /\ history[i].after = history[i].before
       /\ SameRows(history[i])

\* A tool event without a tool name arrives while a turn is open.
C15_Witness ==
  /\ Len(history) = 1
  /\ EventReached(history[1])
  /\ Kind(history[1]) = "PreToolUse" /\ history[1].event.tool_name = ""
  /\ history[1].before # NoStateFile
  /\ history[1].stderr = 1

\* Some append of run h raised its failure to the handler.
AppendFailed(h) == \E j \in DOMAIN h.calls : h.calls[j].result = "thrown"

\* C16: a run without stream errors and within the size limit exits with 0
\* exactly when its input was blank or its event was processed without an
\* internal error; input that is not JSON, a data directory that cannot be
\* created and a ledger append that fails for good give a non-zero code.
C16_ExitCodeReportsOutcome ==
  \A i \in DOMAIN history :
    (WithinLimit(history[i]) /\ history[i].env.error.at = "never") =>
       (history[i].exit # 0 <=>
          \/ history[i].stdin.text = "malformed"
          \/ history[i].env.mkdir # "ok"
          \/ AppendFailed(history[i]))

\* Run h met a broken pipe: on a stream or as an uncaught exception, thrown
\* in initialization, or thrown by an append of the handler.
BrokenPipe(h) ==
  \/ h.env.error.at # "never" /\ h.env.error.code = "EPIPE"
  \/ h.env.mkdir = "EPIPE"
  \/ \E j \in DOMAIN h.calls : h.calls[j].tried[Len(h.calls[j].tried)] = "EPIPE"

\* C17: a run in which a broken pipe is raised, wherever it is raised, exits
\* with code 0.
C17_BrokenPipeExitsZero ==
  \A i \in DOMAIN history :
    (WithinLimit(history[i]) /\ BrokenPipe(history[i])) => history[i].exit = 0

RECURSIVE SumSizes(_)
SumSizes(chunks) == IF Len(chunks) = 0 THEN 0 ELSE Head(chunks) + SumSizes(Tail(chunks))

\* C18: a run whose input is larger than MAX_INPUT_SIZE exits non-zero with
\* one diagnostic, without initializing, without reading the text as JSON
\* (text that is not JSON gives no second outcome), and leaves the state file
\* and every ledger file as they were; input of exactly MAX_INPUT_SIZE is
\* initialized and processed.
C18_OversizedInputRejected ==
  \A i \in DOMAIN history :
    history[i].env = Reliable =>
      IF SumSizes(history[i].stdin.chunks) > MAX_INPUT_SIZE
      THEN /\ history[i].exit = 1
           /\ history[i].stderr = 1
           /\ ~history[i].initialized
           /\ history[i].calls = <<>>
           /\ history[i].after = history[i].before
           /\ history[i].csvAfter = history[i].csvBefore
      ELSE /\ history[i].initialized
           /\ history[i].exit = IF history[i].stdin.text = "malformed" THEN 1 ELSE 0

\* The limit is crossed by the third chunk while a turn with a tool in flight
\* is open.
C18_Witness ==
  /\ Len(history) = 1
  /\ history[1].stdin.chunks = <<MAX_INPUT_SIZE - 1, 1, 1>>
  /\ history[1].stdin.text = "json"
  /\ Kind(history[1]) = "Stop"
  /\ history[1].before # NoStateFile
  /\ history[1].exit = 1
  /\ Rows(csvFiles, "costs") = <<>>

\* The outcomes of all the attempts of run h, in order.
RECURSIVE Attempts(_, _)
Attempts(calls, n) == IF n = 0 THEN <<>> ELSE Attempts(calls, n - 1) \o calls[n].tried

\* C19: every appendCSV call makes between one and MAX_RETRIES attempts;
\* every attempt but the last failed with EBUSY; the call writes the row when
\* its last attempt succeeds and raises the failure otherwise; a last attempt
\* that failed with EBUSY is the third. The attempts are the only
\* fs.appendFile calls of the handler, and each ledger gains one row per
\* call that wrote.
C19_AppendRetriesBounded ==
  \A i \in DOMAIN history :
    /\ \A j \in DOMAIN history[i].calls :
         LET c == history[i].calls[j]
             n == Len(c.tried)
         IN /\ n \in 1..MAX_RETRIES
            /\ \A a \in 1..(n - 1) : c.tried[a] = "EBUSY"
            /\ c.result = IF c.tried[n] = "ok" THEN "written" ELSE "thrown"
            /\ c.tried[n] = "EBUSY" => n = MAX_RETRIES
    /\ \A b \in DOMAIN Attempts(history[i].calls, Len(history[i].calls)) :
         Attempts(history[i].calls, Len(history[i].calls))[b] =
           IF b <= Len(history[i].env.io) THEN history[i].env.io[b] ELSE "ok"
    /\ \A k \in Ledgers :
         history[i].appended[k] =
           Cardinality({j \in DOMAIN history[i].calls :
                          history[i].calls[j].ledger = k /\ history[i].calls[j].result = "written"})

\* The turn row is written at the third attempt and the prompt row fails on
\* an error that is not retried.
C19_Witness ==
  /\ Len(history) = 1
  /\ Len(history[1].calls) = 2
  /\ history[1].calls[1] = [ledger |-> "turns", tried |-> <<"EBUSY", "EBUSY", "ok">>, result |-> "written"]
  /\ history[1].calls[2] = [ledger |-> "prompts", tried |-> <<"EBUSY", "EACCES">>, result |-> "thrown"]
  /\ history[1].appended["turns"] = 1
  /\ history[1].appended["prompts"] = 0

\* ------------------------------------- an append during a migration
\* The ledger holds a header of Schemas and earlier rows; one invocation,
\* whose version expects the header expected, initializes it while another,
\* which found the header as it is, appends rows.
InitMigrateRace ==
  /\ stateFiles = [s \in Sessions |-> NoStateFile]
  /\ csvFiles = [k \in Ledgers |-> [exists |-> FALSE, lines |-> <<>>]]
  /\ now = 1
  /\ history = <<>>
  /\ \E header \in Schemas, rs \in EarlierRows, expected \in Schemas :
       /\ disk = [ledger |-> [exists |-> TRUE, content |-> LedgerText(header, rs)],
                  backups |-> <<>>, stderr |-> 0, thrown |-> FALSE]
       /\ running = <<[pc |-> "idle", header |-> header, expected |-> expected, lines |-> <<>>]>>

\* migrateCSVIfNeeded up to the comparison of the first line with the
\* expected header.
ReadsLedger ==
  /\ running[1].pc = "idle"
  /\ \E lines \in {NonBlankLines(disk.ledger.content)} :
       running' = <<[running[1] EXCEPT !.lines = lines,
                       !.pc = IF lines[1] = running[1].expected THEN "done" ELSE "read"]>>
  /\ UNCHANGED <<stateFiles, csvFiles, now, history, disk>>

\* migrateCSVIfNeeded: fs.copyFile.
CopiesBackup ==
  /\ running[1].pc = "read"
  /\ disk' = Backup(disk, NoFault, now)
  /\ running' = <<[running[1] EXCEPT !.pc = "copied"]>>
  /\ now' = now + 1
  /\ UNCHANGED <<stateFiles, csvFiles, history>>

\* migrateCSVIfNeeded: fs.writeFile of the rows that were read.
RewritesLedger ==
  /\ running[1].pc = "copied"
  /\ disk' = Rewrite(disk, MigratedContent(running[1].lines, running[1].expected), NoFault)
  /\ running' = <<[running[1] EXCEPT !.pc = "done"]>>
  /\ UNCHANGED <<stateFiles, csvFiles, now, history>>

\* The other invocation appends a row with appendCSV.
AppendsMeanwhile ==
  /\ Len(history) < MaxAppended
  /\ \E r \in 1..3 :
       \E row \in {buildCSVRow(ValuesFor(running[1].header, r))} :
          /\ disk' = appendRow(disk, row, NoFault)
          /\ history' = Append(history, [row |-> row, during |-> running[1].pc])
  /\ UNCHANGED <<stateFiles, csvFiles, now, running>>

NextMigrateRace ==
  \/ ReadsLedger
  \/ CopiesBackup
  \/ RewritesLedger
  \/ AppendsMeanwhile

SpecMigrateRace == InitMigrateRace /\ [][NextMigrateRace]_vars

\* C33: every row that an invocation appended is a line of the ledger - as
\* it was appended or, once the ledger is migrated, with its values under
\* the columns of the new header - also when it was appended between the
\* read and the rewrite of a migration.
C33_AppendedRowSurvivesMigration ==
  \A n \in DOMAIN history :
    \E k \in DOMAIN Split(disk.ledger.content, "\n") :
       \/ Split(disk.ledger.content, "\n")[k] = history[n].row
       \/ Split(disk.ledger.content, "\n")[k] =
            MigrateRow(parseCSVRow(history[n].row),
                       ColumnMapping(running[1].header, running[1].expected))

\* ------------------------------------------- several session identifiers
\* path.join: the segments of a path in normal form - an empty segment and
\* "." are dropped, ".." removes the segment before it.
RECURSIVE Normalized(_, _)
Normalized(segments, path) ==
  IF Len(segments) = 0 THEN path
  ELSE Normalized(Tail(segments),
         IF Head(segments) \in {<<>>, <<".">>} THEN path
         ELSE IF Head(segments) = <<".", ".">> /\ Len(path) > 0 /\ path[Len(path)] # <<".", ".">>
              THEN SubSeq(path, 1, Len(path) - 1)
         ELSE Append(path, Head(segments)))

\* getSessionStateFile: the path of the session's state file below the
\* state directory.
getSessionStateFile(sessionId) ==
  Normalized(Split(sessionId \o <<".", "j", "s", "o", "n">>, "/"), <<>>)

\* The session identifiers a, b and ./a, and the state files they name.
SessionIds == {<<"a">>, <<"b">>, <<".", "/", "a">>}
StateFilePaths == {getSessionStateFile(s) : s \in SessionIds}

InitSessions ==
  /\ stateFiles = [f \in StateFilePaths |-> NoStateFile]
  /\ csvFiles = [k \in Ledgers |-> [exists |-> FALSE, lines |-> <<>>]]
  /\ now = 1
  /\ history = <<>>
  /\ running = <<>>
  /\ disk = <<>>

\* One invocation of the hook for an event of one of the sessions; history
\* keeps the state file of every session before and after it and the rows
\* it appended to each ledger.
InvokeFor(eventData) ==
  /\ \E p \in {Main(stateFiles[getSessionStateFile(eventData.session_id)], csvFiles, eventData, now)} :
        /\ stateFiles' = [stateFiles EXCEPT ![getSessionStateFile(eventData.session_id)] = p.file]
        /\ csvFiles' = p.csv
        /\ history' = Append(history,
             [event |-> eventData, at |-> now,
              before |-> [s \in SessionIds |-> stateFiles[getSessionStateFile(s)]],
              after |-> [s \in SessionIds |->
                           IF getSessionStateFile(s) = getSessionStateFile(eventData.session_id)
                           THEN p.file ELSE stateFiles[getSessionStateFile(s)]],
              rows |-> [k \in Ledgers |->
                          SubSeq(Rows(p.csv, k), Len(Rows(csvFiles, k)) + 1, Len(Rows(p.csv, k)))]])
  /\ now' = now + 1
  /\ UNCHANGED <<running, disk>>

PromptOfSession ==
  /\ now <= MaxSessionEvents
  /\ \E s \in SessionIds :
        InvokeFor([Event("UserPromptSubmit", s, "") EXCEPT !.prompt = <<"f", "i", "x">>])

ToolStartOfSession ==
  /\ now <= MaxSessionEvents
  /\ \E s \in SessionIds : InvokeFor(Event("PreToolUse", s, "Bash"))

ToolEndOfSession ==
  /\ now <= MaxSessionEvents
  /\ \E s \in SessionIds : InvokeFor(Event("PostToolUse", s, "Bash"))

CompactionOfSession ==
  /\ now <= MaxSessionEvents
  /\ \E s \in SessionIds :
        InvokeFor([Event("PreCompact", s, "") EXCEPT !.tokens_before = 100, !.tokens_after = 40])

StopOfSession ==
  /\ now <= MaxSessionEvents
  /\ \E s \in SessionIds : InvokeFor(Event("Stop", s, ""))

NextSessions ==
  \/ PromptOfSession
  \/ ToolStartOfSession
  \/ ToolEndOfSession
  \/ CompactionOfSession
  \/ StopOfSession

SpecSessions == InitSessions /\ [][NextSessions]_vars

\* C34: an event of session A leaves the persisted state (turn, tool count,
\* costs, in-flight map, key counter) of every session with another
\* identifier as it was, and every row it appends carries A's identifier.
C34_SessionsIsolated ==
  \A n \in DOMAIN history :
    /\ \A B \in SessionIds \ {history[n].event.session_id} :
          history[n].after[B] = history[n].before[B]
    /\ \A k \in Ledgers : \A i \in DOMAIN history[n].rows[k] :
          history[n].rows[k][i].session_id = history[n].event.session_id
====
